---- MODULE Spec2Model ----
(***************************************************************************)
(* Roomify: hosting configuration, asset upload, project persistence and   *)
(* 3D generation, modelled as state machines over the Puter backend        *)
(* (key-value store, file system, hosting, workers, AI).                   *)
(*                                                                         *)
(* Strings are sequences of tokens (each token a TLA+ string), so that     *)
(* "contains", "starts with" and concatenation are computed, not assumed.  *)
(* JavaScript values are tagged records [t |-> <typeof>, ...].             *)
(***************************************************************************)
EXTENDS Integers, Sequences, FiniteSets, TLC

(*************************** bounds ***************************************)
\* Number of hosting slugs createHostingSlug may mint in one run.
MaxSlugs == 2
\* Number of key-value writes of project records in one run; the server
\* clock advances with each.
MaxClock == 1
\* Number of successful saves when only the worker's endpoints are driven.
MaxSaves == 2
\* Number of generate3DView calls the Visualizer starts in one run.
MaxGens == 2
\* Number of times the Visualizer loads a project in one run: on mounting
\* and on navigating to another project.
MaxLoads == 2
\* Number of gestures the user makes on the view controls in one run.
MaxMoves == 2

(*************************** JavaScript values *****************************)
Undefined == [t |-> "undefined"]
JSNull == [t |-> "null"]
Str(s) == [t |-> "string", s |-> s]
EmptyStr == Str(<<>>)

\* JavaScript truthiness of a tagged value.
Truthy(v) ==
  CASE v.t = "undefined" -> FALSE
    [] v.t = "null" -> FALSE
    [] v.t = "string" -> v.s # <<>>
    [] v.t = "number" -> v.n # 0
    [] OTHER -> TRUE

\* String.prototype.includes for one token.
Includes(s, tok) == \E i \in 1..Len(s) : s[i] = tok

(*************************** program constants *****************************)
HOSTING_CONFIG_KEY == <<"roomify_hosting_config">>
hostingRootDir == <<"roomify-hosting">>
HOSTING_DOMAIN == ".puter.site"

PROJECT_PREFIX == "roomify_project_"

Tabs == {"tab1", "tab2"}
\* The tab that runs the project store client.
Client == "tab1"
\* The uuid puter.auth.getUser() reports for the account.
UserId == "user-1"
ProjectIds == {"p1", "p2"}
Digits == <<"0", "1", "2", "3", "4", "5">>
SlugSuffix == <<"s1", "s2", "s3", "s4", "s5">>

\* createHostingSlug(): a fresh slug per call (timestamp + random suffix).
createHostingSlug(n) == <<"roomify-", SlugSuffix[n + 1]>>

HostingConfig(sub) == [t |-> "object", subdomain |-> sub]
HostedAsset(u) == [t |-> "object", url |-> u]

\* A DesignItem / project record as JSON.
Project(id, src, rendered, updatedAt) ==
  [t |-> "object", id |-> id, sourceImage |-> src, renderedImage |-> rendered,
   updatedAt |-> updatedAt]

\* new Date().toISOString() at clock value n.
ISOString(n) == Str(<<"iso-", Digits[n + 1]>>)

(*************************** image references ******************************)
DataPng == <<"data:", "image/png", ";base64", ",", "iVBORw0KG">>
DataNoComma == <<"data:", "image/png", ";base64">>
RemoteJpg == <<"https://", "example.com", "/plan", ".jpg">>
RemotePng == <<"https://", "example.com", "/render", ".png">>
\* An asset hosted by an earlier session of the account.
HostedOld ==
  <<"https://", "roomify-", "s0", ".puter.site", "/projects/", "p1", "/", "source", ".", "png">>

StartsWith(s, tok) == Len(s) > 0 /\ s[1] = tok
EndsWith(s, tok) == Len(s) > 0 /\ s[Len(s)] = tok
\* String.prototype.indexOf for one token; 0 stands for -1.
IndexOf(s, tok) ==
  IF Includes(s, tok) THEN CHOOSE i \in 1..Len(s) : s[i] = tok /\ \A j \in 1..(i - 1) : s[j] # tok
  ELSE 0

(*************************** state ****************************************)
VARIABLES
  signedIn,    \* puter.auth.isSignedIn()
  kvConfig,    \* value stored under HOSTING_CONFIG_KEY (JSNull when absent)
  sites,       \* subdomains registered with the hosting backend
  dirs,        \* directories existing in the file system
  slugN,       \* slugs minted so far
  nCreate,     \* successful puter.hosting.create calls so far
  tab,         \* per tab: position and locals of the running call
  pair,        \* per tab: the last two results of getOrCreateHostingConfig
  workerUrl,   \* PUTER_WORKER_URL is configured
  kvProj,      \* project records in the key-value store, by key
  files,       \* files in the file system: path -> content
  now,         \* the worker's clock
  gen,         \* the running generate3DView call
  viz,         \* the Visualizer page: React state, pending effects, calls
  pane,        \* the Visualizer's view controls: mode, zoom, pan, slider
  home         \* the Home page: its Upload component and handleUploadComplete

vars == <<signedIn, kvConfig, sites, dirs, slugN, nCreate, tab, pair,
          workerUrl, kvProj, files, now, gen, viz, pane, home>>

\* What the hosting configuration manager never touches.
outsideHost == <<workerUrl, kvProj, files, now, gen, viz, pane, home>>

NoUpload ==
  [hosting |-> JSNull, url |-> Undefined, projectId |-> "", label |-> "",
   content |-> <<>>, ctype |-> "", path |-> <<>>, ret |-> JSNull, io |-> <<>>]

IdleTab ==
  [pc |-> "idle", op |-> "none",
   \* getOrCreateHostingConfig
   existing |-> JSNull, subdomain |-> <<>>, config |-> JSNull,
   resolved |-> FALSE, verifyFailed |-> FALSE, created |-> 0,
   failed |-> FALSE, solo |-> FALSE,
   \* uploadImageToHosting
   up |-> NoUpload,
   \* createProject, updateProject, getProject, worker requests
   item |-> Undefined, hostedSource |-> JSNull, hostedRender |-> JSNull,
   payload |-> Undefined, user |-> "none", ret |-> Undefined, status |-> 0,
   wrote |-> FALSE,
   io |-> <<>>]

NoPair == [last |-> JSNull, armed |-> FALSE, verdict |-> "none"]

Set(t, r) == tab' = [tab EXCEPT ![t] = r]

\* The call makes a backend call e.
Log(r, e) == [r EXCEPT !.io = Append(@, e)]

(******************* getOrCreateHostingConfig *****************************)
\* getOrCreateHostingConfig ignoring the cached configuration.
CachedConfigFound_Never(existing) == FALSE

\* `if (existing)`: a cached configuration was found.
CachedConfigFound(existing) == Truthy(existing)

\* The verification block without its `return config`.
VerifyOkNext_FallThrough == "h_mkdirNew"

\* Where control goes when the verification block ends without throwing:
\* `return config`.
VerifyOkNext == "h_ret"

\* Where control goes when the verification block throws: the inner catch
\* logs and falls through to the creation of a new namespace.
VerifyThrowNext == "h_mkdirNew"

\* The outer catch passing the error on instead of returning null.
OuterCatch_Rethrow(r) == [r EXCEPT !.pc = "h_throw", !.failed = TRUE]

\* The outer catch: log and return null.
OuterCatch(r) == [r EXCEPT !.pc = "h_ret", !.config = JSNull, !.failed = TRUE]

\* Entering the creation branch: `const subdomain = createHostingSlug()`.
MintSlug(r) == [r EXCEPT !.pc = "h_mkdirNew", !.subdomain = createHostingSlug(slugN)]

\* if (!puter.auth.isSignedIn()) return null;
HostingBegin(t, base) ==
  /\ tab[t].pc = "idle"
  /\ slugN < MaxSlugs
  /\ tab' = [u \in Tabs |->
               IF u = t
                 THEN [base EXCEPT !.pc = IF signedIn THEN "h_kvGet" ELSE "h_ret",
                                      !.failed = ~signedIn,
                                      !.solo = \A o \in Tabs \ {t} : tab[o].pc = "idle"]
                 ELSE [tab[u] EXCEPT !.solo = FALSE]]
  /\ UNCHANGED <<signedIn, kvConfig, sites, dirs, slugN, nCreate, outsideHost>>

\* const existing = await puter.kv.get(HOSTING_CONFIG_KEY)
H_KvGet(t) ==
  /\ tab[t].pc = "h_kvGet"
  /\ LET r == Log(tab[t], "kv.get")
     IN \E ok \in BOOLEAN :
          IF ok
            THEN IF CachedConfigFound(kvConfig)
                   THEN /\ Set(t, [r EXCEPT !.existing = kvConfig, !.pc = "h_hostingGet"])
                        /\ UNCHANGED slugN
                   ELSE /\ Set(t, MintSlug([r EXCEPT !.existing = kvConfig]))
                        /\ slugN' = slugN + 1
            ELSE /\ Set(t, OuterCatch(r))
                 /\ UNCHANGED slugN
  /\ UNCHANGED <<signedIn, kvConfig, sites, dirs, nCreate, outsideHost>>

\* Leaving the verification block through its catch.
VerifyThrow(t, r) ==
  IF VerifyThrowNext = "h_mkdirNew"
    THEN /\ Set(t, MintSlug([r EXCEPT !.verifyFailed = TRUE, !.failed = TRUE]))
         /\ slugN' = slugN + 1
    ELSE /\ Set(t, OuterCatch(r))
         /\ UNCHANGED slugN

\* await puter.hosting.get(config.subdomain)
H_HostingGet(t) ==
  /\ tab[t].pc = "h_hostingGet"
  /\ LET r == Log(tab[t], "hosting.get")
     IN \E ok \in BOOLEAN :
          IF ok /\ r.existing.subdomain \in sites
            THEN /\ Set(t, [r EXCEPT !.resolved = TRUE, !.pc = "h_mkdirOld"])
                 /\ UNCHANGED slugN
            ELSE VerifyThrow(t, r)
  /\ UNCHANGED <<signedIn, kvConfig, sites, dirs, nCreate, outsideHost>>

\* await puter.fs.mkdir(hostingRootDir, { createMissingParents: true })
\* inside the verification block
H_MkdirOld(t) ==
  /\ tab[t].pc = "h_mkdirOld"
  /\ LET r == Log(tab[t], "fs.mkdir")
     IN \E ok \in BOOLEAN :
          IF ok
            THEN /\ Set(t, [r EXCEPT !.pc = "h_hostingUpdate"])
                 /\ dirs' = dirs \cup {hostingRootDir}
                 /\ UNCHANGED slugN
            ELSE /\ VerifyThrow(t, r)
                 /\ UNCHANGED dirs
  /\ UNCHANGED <<signedIn, kvConfig, sites, nCreate, outsideHost>>

\* await puter.hosting.update(config.subdomain, hostingRootDir); return config
H_HostingUpdate(t) ==
  /\ tab[t].pc = "h_hostingUpdate"
  /\ LET r == Log(tab[t], "hosting.update")
     IN \E ok \in BOOLEAN :
          IF ok /\ r.existing.subdomain \in sites
            THEN IF VerifyOkNext = "h_ret"
                   THEN /\ Set(t, [r EXCEPT !.pc = "h_ret", !.config = r.existing])
                        /\ UNCHANGED slugN
                   ELSE /\ Set(t, MintSlug(r))
                        /\ slugN' = slugN + 1
            ELSE VerifyThrow(t, r)
  /\ UNCHANGED <<signedIn, kvConfig, sites, dirs, nCreate, outsideHost>>

\* await puter.fs.mkdir(hostingRootDir, ...) in the creation branch
H_MkdirNew(t) ==
  /\ tab[t].pc = "h_mkdirNew"
  /\ LET r == Log(tab[t], "fs.mkdir")
     IN \E ok \in BOOLEAN :
          IF ok
            THEN /\ Set(t, [r EXCEPT !.pc = "h_hostingCreate"])
                 /\ dirs' = dirs \cup {hostingRootDir}
            ELSE /\ Set(t, OuterCatch(r))
                 /\ UNCHANGED dirs
  /\ UNCHANGED <<signedIn, kvConfig, sites, slugN, nCreate, outsideHost>>

\* const site = await puter.hosting.create(subdomain, hostingRootDir);
\* const config = { subdomain: site.subdomain }
H_HostingCreate(t) ==
  /\ tab[t].pc = "h_hostingCreate"
  /\ LET r == Log(tab[t], "hosting.create")
     IN \E ok \in BOOLEAN :
          IF ok /\ r.subdomain \notin sites
            THEN /\ Set(t, [r EXCEPT !.pc = "h_kvSet",
                                     !.config = HostingConfig(r.subdomain),
                                     !.created = @ + 1])
                 /\ sites' = sites \cup {r.subdomain}
                 /\ nCreate' = nCreate + 1
            ELSE /\ Set(t, OuterCatch(r))
                 /\ UNCHANGED <<sites, nCreate>>
  /\ UNCHANGED <<signedIn, kvConfig, dirs, slugN, outsideHost>>

\* await puter.kv.set(HOSTING_CONFIG_KEY, config); return config
H_KvSet(t) ==
  /\ tab[t].pc = "h_kvSet"
  /\ LET r == Log(tab[t], "kv.set")
     IN \E ok \in BOOLEAN :
          IF ok
            THEN /\ Set(t, [r EXCEPT !.pc = "h_ret"])
                 /\ kvConfig' = r.config
            ELSE /\ Set(t, OuterCatch(r))
                 /\ UNCHANGED kvConfig
  /\ UNCHANGED <<signedIn, sites, dirs, slugN, nCreate, outsideHost>>

HostingStep(t) ==
  \/ H_KvGet(t)
  \/ H_HostingGet(t)
  \/ H_MkdirOld(t)
  \/ H_HostingUpdate(t)
  \/ H_MkdirNew(t)
  \/ H_HostingCreate(t)
  \/ H_KvSet(t)

\* A caller invokes getOrCreateHostingConfig() on its own.
HostingCall(t) ==
  /\ HostingBegin(t, [IdleTab EXCEPT !.op = "hosting"])
  /\ UNCHANGED pair

\* The promise of a stand-alone call settles; the caller sees tab[t].config.
HostingReturn(t) ==
  /\ tab[t].pc = "h_ret"
  /\ tab[t].op = "hosting"
  /\ LET clean == /\ pair[t].armed
                  /\ tab[t].solo
                  /\ \A o \in Tabs : ~tab[o].failed
         armed == tab[t].solo /\ ~tab[t].failed
     IN pair' = [u \in Tabs |->
                  IF u = t
                    THEN [last |-> IF armed THEN tab[t].config ELSE JSNull,
                          armed |-> armed,
                          verdict |-> IF ~clean THEN "none"
                                      ELSE IF tab[t].config = pair[t].last /\ tab[t].created = 0
                                             THEN "same" ELSE "differ"]
                    ELSE IF tab[t].failed
                           THEN [pair[u] EXCEPT !.armed = FALSE, !.last = JSNull]
                           ELSE pair[u]]
  /\ Set(t, IdleTab)
  /\ UNCHANGED <<signedIn, kvConfig, sites, dirs, slugN, nCreate, outsideHost>>

(*************************** utils (image helpers) ************************)
\* isHostedUrl(url): the URL contains the hosting domain marker.
isHostedUrl(v) == v.t = "string" /\ Includes(v.s, HOSTING_DOMAIN)

\* getHostedUrl(hosting, filePath): the namespace combined with the path
\* relative to the hosting root (the root prefix is stripped).
getHostedUrl(hosting, filePath) ==
  IF ~Truthy(hosting) \/ hosting.subdomain = <<>> THEN JSNull
  ELSE LET rel == IF Len(filePath) >= Len(hostingRootDir)
                      /\ SubSeq(filePath, 1, Len(hostingRootDir)) = hostingRootDir
                    THEN SubSeq(filePath, Len(hostingRootDir) + 1, Len(filePath))
                    ELSE filePath
       IN Str(<<"https://">> \o hosting.subdomain \o <<HOSTING_DOMAIN>> \o rel)

\* Content type inferred from a URL's file extension ("" when none).
TypeFromSuffix(url) ==
  IF EndsWith(url, ".jpg") \/ EndsWith(url, ".jpeg") THEN "image/jpeg"
  ELSE IF EndsWith(url, ".png") THEN "image/png"
  ELSE ""

\* getImageExtension(contentType, url): from the content type, else from the
\* URL suffix, else png.
getImageExtension(contentType, url) ==
  LET ty == IF contentType # "" THEN contentType ELSE TypeFromSuffix(url)
  IN IF ty = "image/jpeg" THEN "jpg" ELSE "png"

\* fetchBlobFromUrl(url) for an inline data URL: decoded without a network
\* call; a data URL without its separator is malformed.
DataUrlBlob(url) ==
  IF IndexOf(url, ",") = 0 THEN JSNull
  ELSE [t |-> "object",
        content |-> SubSeq(url, IndexOf(url, ",") + 1, Len(url)),
        ctype |-> IF Len(url) >= 2 THEN url[2] ELSE "image/png"]

\* fetchBlobFromUrl(url) for a fetched resource whose response declares the
\* content type header: the header, else the URL's extension, else PNG.
FetchedBlob(url, header) ==
  [t |-> "object",
   content |-> <<"bytes-of">> \o url,
   ctype |-> IF header # "" THEN header
             ELSE IF TypeFromSuffix(url) # "" THEN TypeFromSuffix(url)
             ELSE "image/png"]

\* imageUrlToPngBlob(url): the image re-rendered on a canvas as PNG.
PngBlob(url) ==
  [t |-> "object", content |-> <<"png-of">> \o url, ctype |-> "image/png"]

ResponseHeaders == {"", "image/png"}

(*************************** uploadImageToHosting *************************)
\* uploadImageToHosting without the short-circuit for a hosted URL.
UploadBegin_NoShortCircuit(r, hosting, url, projectId, label) ==
  LET up0 == [NoUpload EXCEPT !.hosting = hosting, !.url = url,
                              !.projectId = projectId, !.label = label]
  IN IF ~Truthy(hosting) \/ ~Truthy(url)
       THEN [r EXCEPT !.pc = "u_ret", !.up = up0]
     ELSE [r EXCEPT !.pc = "u_resolve", !.up = up0]

\* The synchronous head of uploadImageToHosting: validation and the
\* short-circuit for an already hosted URL.
UploadBegin(r, hosting, url, projectId, label) ==
  LET up0 == [NoUpload EXCEPT !.hosting = hosting, !.url = url,
                              !.projectId = projectId, !.label = label]
  IN IF ~Truthy(hosting) \/ ~Truthy(url)
       THEN [r EXCEPT !.pc = "u_ret", !.up = up0]
     ELSE IF isHostedUrl(url)
       THEN [r EXCEPT !.pc = "u_ret", !.up = [up0 EXCEPT !.ret = HostedAsset(url.s)]]
     ELSE [r EXCEPT !.pc = "u_resolve", !.up = up0]

UpLog(r, e) == [r EXCEPT !.up.io = Append(@, e), !.io = Append(@, e)]

\* The catch block passing the error on instead of returning null.
UploadNull_Rethrow(r) == [r EXCEPT !.pc = "u_throw"]

\* return null (input rejected, nothing resolved, no URL, or the catch block)
UploadNull(r) == [r EXCEPT !.pc = "u_ret", !.up.ret = JSNull]

\* const dir = `${hostingRootDir}/projects/${projectId}`
UploadDir(projectId) == hostingRootDir \o <<"/projects/", projectId>>

\* The path without the extension.
UploadPath_NoExt(projectId, label, ext) == UploadDir(projectId) \o <<"/", label>>

\* const filePath = `${dir}/${label}.${ext}`
UploadPath(projectId, label, ext) == UploadDir(projectId) \o <<"/", label, ".", ext>>

\* After `resolved` is known: null stops the upload, otherwise the extension
\* and the path are computed and the directory is created next.
UploadResolved(r, blob) ==
  IF ~Truthy(blob) THEN UploadNull(r)
  ELSE [r EXCEPT !.pc = "u_mkdir",
                 !.up.content = blob.content,
                 !.up.ctype = blob.ctype,
                 !.up.path = UploadPath(r.up.projectId, r.up.label,
                                        getImageExtension(blob.ctype, r.up.url.s))]

\* resolved = label === 'rendered' ? imageUrlToPngBlob(url) : fetchBlobFromUrl(url)
U_Resolve(t) ==
  /\ tab[t].pc = "u_resolve"
  /\ LET r == tab[t]
         url == r.up.url.s
     IN IF r.up.label = "rendered"
          THEN \E ok \in BOOLEAN :
                 Set(t, IF ok THEN UploadResolved(UpLog(r, "image.load"), PngBlob(url))
                        ELSE UploadNull(UpLog(r, "image.load")))
          ELSE IF StartsWith(url, "data:")
                 THEN Set(t, UploadResolved(r, DataUrlBlob(url)))
                 ELSE \E ok \in BOOLEAN, header \in ResponseHeaders :
                        Set(t, IF ok THEN UploadResolved(UpLog(r, "fetch"), FetchedBlob(url, header))
                               ELSE UploadNull(UpLog(r, "fetch")))
  /\ UNCHANGED <<signedIn, kvConfig, sites, dirs, slugN, nCreate, pair, outsideHost>>

\* await puter.fs.mkdir(dir, { createMissingParents: true })
U_Mkdir(t) ==
  /\ tab[t].pc = "u_mkdir"
  /\ LET r == UpLog(tab[t], "fs.mkdir")
     IN \E ok \in BOOLEAN :
          IF ok
            THEN /\ Set(t, [r EXCEPT !.pc = "u_write"])
                 /\ dirs' = dirs \cup {hostingRootDir, UploadDir(r.up.projectId)}
            ELSE /\ Set(t, UploadNull(r))
                 /\ UNCHANGED dirs
  /\ UNCHANGED <<signedIn, kvConfig, sites, slugN, nCreate, pair, outsideHost>>

\* puter.fs.write overwrites the file at the path.
WriteFile(fs, path, content) ==
  {f \in fs : f.path # path} \cup {[path |-> path, content |-> content]}

\* await puter.fs.write(filePath, uploadFile); then the hosted URL is built.
U_Write(t) ==
  /\ tab[t].pc = "u_write"
  /\ LET r == UpLog(tab[t], "fs.write")
         hostedUrl == getHostedUrl(r.up.hosting, r.up.path)
     IN \E ok \in BOOLEAN :
          IF ok
            THEN /\ files' = WriteFile(files, r.up.path, r.up.content)
                 /\ Set(t, [r EXCEPT !.pc = "u_ret",
                                     !.up.ret = IF ~Truthy(hostedUrl) THEN JSNull
                                                ELSE HostedAsset(hostedUrl.s)])
            ELSE /\ Set(t, UploadNull(r))
                 /\ UNCHANGED files
  /\ UNCHANGED <<signedIn, kvConfig, sites, dirs, slugN, nCreate, pair, workerUrl, kvProj, now, gen, viz, pane, home>>

UploadStep(t) ==
  \/ U_Resolve(t)
  \/ U_Mkdir(t)
  \/ U_Write(t)

(*************************** worker endpoints *****************************)
\* puter.kv of the worker: get and set on a set of [key, value] entries.
KvGet(kv, key) ==
  IF \E e \in kv : e.key = key THEN (CHOOSE e \in kv : e.key = key).value ELSE JSNull

KvSet(kv, key, value) ==
  {e \in kv : e.key # key} \cup {[key |-> key, value |-> value]}

\* jsonError(status, message): an error response; the store is as it was
\* and io lists the key-value calls the handler made before answering.
jsonError(status, kv) ==
  [status |-> status, project |-> Undefined, kv |-> kv, io |-> <<>>]

\* An error response of a handler that had made the calls in io.
jsonErrorAfter(status, kv, io) == [jsonError(status, kv) EXCEPT !.io = io]

\* body?.project
BodyProject(body) == IF body.t = "object" THEN body.project ELSE Undefined

\* The key derived from the user alone.
SaveKey_UserOnly(project, userId) == <<PROJECT_PREFIX, userId>>

\* const key = `${PROJECT_PREFIX}${project.id ?? userId}`
SaveKey(project, userId) ==
  IF project.id.t \in {"undefined", "null"} THEN <<PROJECT_PREFIX, userId>>
  ELSE <<PROJECT_PREFIX>> \o project.id.s

\* if (!project || typeof project !== 'object')
ProjectMissing(project) == ~Truthy(project) \/ project.t # "object"

\* The check of sourceImage with the emptiness test left out.
SourceImageMissing_TypeOnly(project) == project.sourceImage.t # "string"

\* The check of sourceImage with the type test left out.
SourceImageMissing_TruthyOnly(project) == ~Truthy(project.sourceImage)

\* if (!project.sourceImage || typeof project.sourceImage !== 'string')
SourceImageMissing(project) ==
  ~Truthy(project.sourceImage) \/ project.sourceImage.t # "string"

\* router.post('/api/projects/save'): the response and the store after it.
\* user: "none" (no user), "noputer" (user without a backend handle), "ok".
\* userId: what getUserId yields (JSNull when it fails); kvOk: kv.set works.
SaveEndpoint(kv, user, body, userId, kvOk, clock) ==
  IF user = "none" THEN jsonError(500, kv)
  ELSE IF user = "noputer" THEN jsonError(401, kv)
  ELSE IF body.t = "malformed" THEN jsonError(400, kv)
  ELSE
    LET project == BodyProject(body) IN
    IF ProjectMissing(project) THEN jsonError(400, kv)
    ELSE IF SourceImageMissing(project) THEN jsonError(400, kv)
    ELSE
      LET payload == [project EXCEPT !.updatedAt = ISOString(clock)] IN
      IF ~Truthy(userId) THEN jsonError(401, kv)
      ELSE IF ~kvOk THEN jsonErrorAfter(500, kv, <<"kv.set">>)
      ELSE [status |-> 200, project |-> payload,
            kv |-> KvSet(kv, SaveKey(project, userId.s[1]), payload),
            io |-> <<"kv.set">>]

\* router.get('/api/projects/get'): id is the search parameter (JSNull when
\* omitted).
GetEndpoint(kv, user, id, kvOk) ==
  IF user # "ok" THEN jsonError(401, kv)
  ELSE IF ~Truthy(id) THEN jsonError(400, kv)
  ELSE IF ~kvOk THEN jsonErrorAfter(500, kv, <<"kv.get">>)
  ELSE LET project == KvGet(kv, <<PROJECT_PREFIX>> \o id.s) IN
       IF project.t \in {"null", "undefined"} THEN jsonErrorAfter(404, kv, <<"kv.get">>)
       ELSE [status |-> 200, project |-> project, kv |-> kv, io |-> <<"kv.get">>]

\* A JavaScript array, kept as the set of its elements.
Arr(items) == [t |-> "array", items |-> items]

\* router.get('/api/projects/list'): kv.list of the project keys, then one
\* kv.get per key; a get that fails (the keys in lost) yields null and is
\* filtered out. listOk: kv.list works.
ListEndpoint(kv, user, listOk, lost) ==
  IF user # "ok" THEN jsonError(401, kv)
  ELSE IF ~listOk THEN jsonErrorAfter(500, kv, <<"kv.list">>)
  ELSE [status |-> 200,
        project |-> Arr({e.value : e \in {x \in kv : x.key \notin lost /\ Truthy(x.value)}}),
        kv |-> kv,
        io |-> IF kv = {} THEN <<"kv.list">> ELSE <<"kv.list", "kv.get">>]

\* response.ok
ResponseOk(status) == status >= 200 /\ status <= 299

\* The session a request of the signed-in client carries.
ClientUser == IF signedIn THEN "ok" ELSE "none"

(*************************** project store client *************************)
Num(n) == [t |-> "number", n |-> n]

\* Items handed to createProject.
CreateItems ==
  {Project(id, src, ren, Undefined) :
     id \in {Str(<<"p1">>), Undefined},
     src \in {EmptyStr, Str(DataPng), Str(DataNoComma), Str(RemoteJpg), Str(HostedOld)},
     ren \in {Undefined, Str(RemotePng)}}

\* Projects handed to updateProject.
UpdateItems ==
  {Project(id, src, Undefined, upd) :
     id \in {Str(<<"p1">>), Undefined},
     src \in {Undefined, EmptyStr, Str(DataPng), Str(HostedOld)},
     upd \in {Str(<<"client-time">>)}}

\* Ids handed to getProject.
GetIds == {Str(<<p>>) : p \in ProjectIds} \cup {EmptyStr}

\* Bodies posted to the save endpoint.
JsonBody(project) == [t |-> "object", project |-> project]
Malformed == [t |-> "malformed"]
SaveBodies ==
  {Malformed, JSNull, JsonBody(Undefined), JsonBody(JSNull), JsonBody(Str(<<"abc">>))}
  \cup {JsonBody(Project(id, src, Undefined, upd)) :
          id \in {Str(<<"p1">>), Undefined},
          src \in {Undefined, JSNull, EmptyStr, Num(42), Str(DataPng), Str(HostedOld)},
          upd \in {Str(<<"client-time">>)}}

\* const baseUrl = PUTER_WORKER_URL?.replace(/\/$/, ''); if (!baseUrl) return null
\* and otherwise the request is sent with puter.workers.exec.
SendOrNull(r, pcExec, payload) ==
  IF ~workerUrl THEN [r EXCEPT !.pc = "ret", !.ret = JSNull]
  ELSE Log([r EXCEPT !.pc = pcExec, !.payload = payload], "workers.exec")

\* hostedSource?.url || (isHostedUrl(item.sourceImage) ? item.sourceImage : '')
ResolvedSource(hostedSource, item) ==
  IF Truthy(hostedSource) /\ hostedSource.url # <<>> THEN Str(hostedSource.url)
  ELSE IF isHostedUrl(item.sourceImage) THEN item.sourceImage
  ELSE EmptyStr

\* hostedRender?.url ||
\*   (item.renderedImage && isHostedUrl(item.renderedImage) ? item.renderedImage : undefined)
ResolvedRender(hostedRender, item) ==
  IF Truthy(hostedRender) /\ hostedRender.url # <<>> THEN Str(hostedRender.url)
  ELSE IF Truthy(item.renderedImage) /\ isHostedUrl(item.renderedImage) THEN item.renderedImage
  ELSE Undefined

\* createProject without the validation of the resolved source.
SourceUnresolved_Never(resolvedSource) == FALSE

\* if (!resolvedSource) return null
SourceUnresolved(resolvedSource) == ~Truthy(resolvedSource)

\* createProject from the resolution of the URLs to the request.
CreateSend(r) ==
  LET resolvedSource == ResolvedSource(r.hostedSource, r.item)
      resolvedRender == ResolvedRender(r.hostedRender, r.item)
  IN IF SourceUnresolved(resolvedSource) THEN [r EXCEPT !.pc = "ret", !.ret = JSNull]
     ELSE SendOrNull(r, "c_exec",
                     [r.item EXCEPT !.sourceImage = resolvedSource,
                                    !.renderedImage = resolvedRender])

\* createProject once hostedSource is known: the rendered image is uploaded
\* if there is one.
CreateAfterSource(r) ==
  IF Truthy(r.item.id) /\ Truthy(r.item.renderedImage)
    THEN UploadBegin(r, r.config, r.item.renderedImage, r.item.id.s[1], "rendered")
    ELSE CreateSend([r EXCEPT !.hostedRender = JSNull])

\* createProject going on to the request without the uploads.
CreateAfterHosting_NoUpload(r) ==
  CreateSend([r EXCEPT !.hostedSource = JSNull, !.hostedRender = JSNull])

\* createProject once the hosting configuration is known: the source image
\* is uploaded if there is a project id and a source.
CreateAfterHosting(r) ==
  IF Truthy(r.item.id) /\ Truthy(r.item.sourceImage)
    THEN UploadBegin(r, r.config, r.item.sourceImage, r.item.id.s[1], "source")
    ELSE CreateAfterSource([r EXCEPT !.hostedSource = JSNull])

\* The calls createProject awaits, as they appear in its log once settled.
Settled == {"getOrCreateHostingConfig", "upload.source", "upload.rendered", "workers.exec"}
IsSettled(e) == e \in Settled

\* An awaited call has settled: its locals are gone and its backend calls
\* are summed up in the caller's log as one entry.
Await(r, call) ==
  [r EXCEPT !.existing = JSNull, !.subdomain = <<>>, !.resolved = FALSE,
            !.verifyFailed = FALSE, !.created = 0, !.failed = FALSE, !.solo = FALSE,
            !.up = NoUpload,
            !.io = Append(SelectSeq(r.io, IsSettled), call)]

\* createProject({ item }): const hosting = await getOrCreateHostingConfig()
CreateCall(t) ==
  /\ now < MaxClock
  /\ \E item \in CreateItems :
       HostingBegin(t, [IdleTab EXCEPT !.op = "create", !.item = item,
                                       !.user = ClientUser])
  /\ UNCHANGED pair

C_AfterHosting(t) ==
  /\ tab[t].pc = "h_ret"
  /\ tab[t].op = "create"
  /\ Set(t, CreateAfterHosting(Await(tab[t], "getOrCreateHostingConfig")))
  /\ UNCHANGED <<signedIn, kvConfig, sites, dirs, slugN, nCreate, pair, outsideHost>>

C_AfterUpload(t) ==
  /\ tab[t].pc = "u_ret"
  /\ tab[t].op = "create"
  /\ Set(t, IF tab[t].up.label = "source"
              THEN CreateAfterSource([Await(tab[t], "upload.source")
                                        EXCEPT !.hostedSource = tab[t].up.ret])
              ELSE CreateSend([Await(tab[t], "upload.rendered")
                                 EXCEPT !.hostedRender = tab[t].up.ret]))
  /\ UNCHANGED <<signedIn, kvConfig, sites, dirs, slugN, nCreate, pair, outsideHost>>

\* updateProject(project)
UpdateCall(t) ==
  /\ tab[t].pc = "idle"
  /\ now < MaxClock
  /\ \E project \in UpdateItems :
       LET r == [IdleTab EXCEPT !.op = "update", !.item = project,
                                !.user = ClientUser]
       IN Set(t, IF ~signedIn \/ ~Truthy(project.id)
                   THEN [r EXCEPT !.pc = "ret", !.ret = JSNull]
                   ELSE SendOrNull(r, "c_exec", project))
  /\ UNCHANGED <<signedIn, kvConfig, sites, dirs, slugN, nCreate, pair, outsideHost>>

\* What createProject / updateProject return for a response.
SaveResult(op, resp, project) ==
  IF ~ResponseOk(resp.status) THEN JSNull
  ELSE IF op = "create"
    THEN (IF Truthy(resp.project) THEN resp.project ELSE JSNull)
    ELSE (IF resp.project.t \in {"undefined", "null"} THEN project ELSE resp.project)

\* await puter.workers.exec(`${baseUrl}/api/projects/save`, ...): the worker
\* handles the request and the client reads the response; the transport may
\* lose the request, or the response after the worker has stored the record.
SaveExec(t) ==
  /\ tab[t].pc = "c_exec"
  /\ \E net \in {"ok", "requestLost", "responseLost"}, uidOk \in BOOLEAN, kvOk \in BOOLEAN :
       LET r == tab[t]
           resp == SaveEndpoint(kvProj, ClientUser, JsonBody(r.payload),
                                IF uidOk THEN Str(<<UserId>>) ELSE JSNull, kvOk, now)
       IN IF net = "requestLost"
            THEN /\ Set(t, [r EXCEPT !.pc = "ret", !.ret = JSNull])
                 /\ UNCHANGED <<kvProj, now>>
            ELSE /\ kvProj' = resp.kv
                 /\ now' = IF resp.status = 200 THEN now + 1 ELSE now
                 /\ Set(t, [r EXCEPT !.pc = "ret",
                                     !.status = resp.status,
                                     !.wrote = (resp.status = 200),
                                     !.ret = IF net = "responseLost" THEN JSNull
                                             ELSE SaveResult(r.op, resp, r.payload)])
  /\ UNCHANGED <<signedIn, kvConfig, sites, dirs, slugN, nCreate, pair, workerUrl, files, gen, viz, pane, home>>

\* getProject(id)
GetCall(t) ==
  /\ tab[t].pc = "idle"
  /\ \E id \in GetIds :
       LET r == [IdleTab EXCEPT !.op = "get", !.item = id, !.user = ClientUser]
       IN Set(t, IF ~signedIn \/ ~Truthy(id)
                   THEN [r EXCEPT !.pc = "ret", !.ret = JSNull]
                   ELSE SendOrNull(r, "g_exec", id))
  /\ UNCHANGED <<signedIn, kvConfig, sites, dirs, slugN, nCreate, pair, outsideHost>>

\* getProject handing on the response's project field as it is.
GetResult_Raw(resp) == resp.project

\* What getProject returns for a response.
GetResult(resp) ==
  IF ~ResponseOk(resp.status)
    THEN (IF resp.status = 404 THEN JSNull ELSE JSNull)
    ELSE (IF resp.project.t \in {"undefined", "null"} THEN JSNull ELSE resp.project)

\* await puter.workers.exec(`${baseUrl}/api/projects/get?id=...`)
GetExec(t) ==
  /\ tab[t].pc = "g_exec"
  /\ \E net \in BOOLEAN, kvOk \in BOOLEAN :
       LET r == tab[t]
           resp == GetEndpoint(kvProj, ClientUser, r.payload, kvOk)
       IN Set(t, IF ~net THEN [r EXCEPT !.pc = "ret", !.ret = JSNull]
                 ELSE [r EXCEPT !.pc = "ret", !.status = resp.status,
                                !.ret = GetResult(resp)])
  /\ UNCHANGED <<signedIn, kvConfig, sites, dirs, slugN, nCreate, pair, outsideHost>>

\* getProjects without the check of the session.
ListGuard_NoSession(session, url) == ~url

\* getProjects: if (!puter.auth.isSignedIn()) return []; if (!baseUrl) return []
ListGuard(session, url) == ~session \/ ~url

\* getProjects()
ListCall(t) ==
  /\ tab[t].pc = "idle"
  /\ LET r == [IdleTab EXCEPT !.op = "list", !.user = ClientUser]
     IN Set(t, IF ListGuard(signedIn, workerUrl)
                 THEN [r EXCEPT !.pc = "ret", !.ret = Arr({})]
                 ELSE Log([r EXCEPT !.pc = "l_exec"], "workers.exec"))
  /\ UNCHANGED <<signedIn, kvConfig, sites, dirs, slugN, nCreate, pair, outsideHost>>

\* What getProjects returns for a response.
ListResult(resp) ==
  IF ~ResponseOk(resp.status) THEN Arr({})
  ELSE IF resp.project.t = "array" THEN resp.project ELSE Arr({})

\* await puter.workers.exec(`${baseUrl}/api/projects/list`, { method: 'GET' })
ListExec(t) ==
  /\ tab[t].pc = "l_exec"
  /\ \E net \in BOOLEAN, listOk \in BOOLEAN, lost \in SUBSET {e.key : e \in kvProj} :
       LET r == tab[t]
           resp == ListEndpoint(kvProj, ClientUser, listOk, lost)
       IN Set(t, IF ~net THEN [r EXCEPT !.pc = "ret", !.ret = Arr({})]
                 ELSE [r EXCEPT !.pc = "ret", !.status = resp.status,
                                !.ret = ListResult(resp)])
  /\ UNCHANGED <<signedIn, kvConfig, sites, dirs, slugN, nCreate, pair, outsideHost>>

\* A request posted to the save endpoint by any HTTP client; at most max
\* records are written in a run.
SaveRequestUpTo(t, max) ==
  /\ tab[t].pc = "idle"
  /\ \E user \in {"none", "noputer", "ok"}, body \in SaveBodies,
        uidOk \in BOOLEAN, kvOk \in BOOLEAN :
       LET resp == SaveEndpoint(kvProj, user, body,
                                IF uidOk THEN Str(<<UserId>>) ELSE JSNull, kvOk, now)
       IN /\ resp.status = 200 => now < max
          /\ kvProj' = resp.kv
          /\ now' = IF resp.status = 200 THEN now + 1 ELSE now
          /\ Set(t, [IdleTab EXCEPT !.op = "saveRequest", !.pc = "ret",
                                    !.item = body, !.user = user,
                                    !.status = resp.status,
                                    !.wrote = (resp.kv # kvProj),
                                    !.io = resp.io,
                                    !.ret = resp.project])
  /\ UNCHANGED <<signedIn, kvConfig, sites, dirs, slugN, nCreate, pair, workerUrl, files, gen, viz, pane, home>>

SaveRequest(t) == SaveRequestUpTo(t, MaxClock)

\* A request sent to the get endpoint by any HTTP client.
GetRequest(t) ==
  /\ tab[t].pc = "idle"
  /\ \E user \in {"none", "noputer", "ok"}, id \in GetIds \cup {JSNull}, kvOk \in BOOLEAN :
       LET resp == GetEndpoint(kvProj, user, id, kvOk)
       IN Set(t, [IdleTab EXCEPT !.op = "getRequest", !.pc = "ret",
                                 !.item = id, !.user = user,
                                 !.status = resp.status,
                                 !.wrote = (resp.kv # kvProj),
                                 !.io = resp.io,
                                 !.ret = resp.project])
  /\ UNCHANGED <<signedIn, kvConfig, sites, dirs, slugN, nCreate, pair, outsideHost>>

\* A request sent to the list endpoint by any HTTP client.
ListRequest(t) ==
  /\ tab[t].pc = "idle"
  /\ \E user \in {"none", "noputer", "ok"}, listOk \in BOOLEAN,
        lost \in SUBSET {e.key : e \in kvProj} :
       LET resp == ListEndpoint(kvProj, user, listOk, lost)
       IN Set(t, [IdleTab EXCEPT !.op = "listRequest", !.pc = "ret",
                                 !.user = user,
                                 !.status = resp.status,
                                 !.wrote = (resp.kv # kvProj),
                                 !.io = resp.io,
                                 !.ret = resp.project])
  /\ UNCHANGED <<signedIn, kvConfig, sites, dirs, slugN, nCreate, pair, outsideHost>>

\* uploadImageToHosting({ hosting, url, projectId, label }) called on its own.
UploadCall(t) ==
  /\ tab[t].pc = "idle"
  /\ \E hosting \in {JSNull, kvConfig, HostingConfig(<<"roomify-", "s0">>), HostingConfig(<<>>)},
        url \in {EmptyStr, Str(DataPng), Str(RemoteJpg), Str(HostedOld)},
        projectId \in ProjectIds, label \in {"source", "rendered"} :
       Set(t, UploadBegin([IdleTab EXCEPT !.op = "upload"], hosting, url, projectId, label))
  /\ UNCHANGED <<signedIn, kvConfig, sites, dirs, slugN, nCreate, pair, outsideHost>>

\* The promise of a client call settles and the tab is free again.
Return(t) ==
  /\ \/ tab[t].pc = "ret"
     \/ tab[t].pc = "u_ret" /\ tab[t].op = "upload"
  /\ Set(t, IdleTab)
  /\ UNCHANGED <<signedIn, kvConfig, sites, dirs, slugN, nCreate, pair, outsideHost>>

(*************************** generate3DView ******************************)
\* The models tried for a 3D render, in order of preference.
THREE_D_MODEL_CONFIGS ==
  << [provider |-> "gemini", model |-> <<"gemini-2.5-flash-image-preview">>,
      useInputImage |-> TRUE, ratio |-> "IMAGE_3D_RENDER_DIMENSION"],
     [provider |-> "gemini", model |-> <<"gemini-3-pro-image-preview">>,
      useInputImage |-> TRUE, ratio |-> "IMAGE_3D_RENDER_DIMENSION"],
     [provider |-> "xai", model |-> <<"grok-2-image">>,
      useInputImage |-> FALSE, ratio |-> "none"] >>

\* Number.prototype.toString for a small natural number.
NumStr(n) == <<"0", "1", "2", "3", "4", "5", "6", "7", "8", "9">>[n + 1]

\* new Error(message)
Error(m) == [t |-> "Error", message |-> m]

\* Values puter.ai.txt2img may reject with: Error objects, a string, a plain
\* object.
Thrown ==
  {Error(<<"quota exceeded">>), Error(<<"model unavailable">>),
   Str(<<"timeout">>), [t |-> "object"]}

\* String(value) for a thrown value that is not an Error.
StringOf(v) ==
  CASE v.t = "string" -> v.s
    [] v.t = "null" -> <<"null">>
    [] OTHER -> <<"[object Object]">>

\* getMimeTypeFromUrl(url)
getMimeTypeFromUrl(url) ==
  IF StartsWith(url, "data:")
    THEN (IF Len(url) >= 2 THEN url[2] ELSE "image/png")
  ELSE IF EndsWith(url, ".jpg") \/ EndsWith(url, ".jpeg") THEN "image/jpeg"
  ELSE IF EndsWith(url, ".png") THEN "image/png"
  ELSE IF EndsWith(url, ".webp") THEN "image/webp"
  ELSE "image/png"

\* What FileReader.readAsDataURL yields for the fetched image.
ReadAsDataURL(url) == <<"data:", getMimeTypeFromUrl(url), ";base64", ",">> \o url

IdleGen ==
  [pc |-> "idle", imageUrl |-> <<>>, model |-> Undefined, base64Data |-> <<>>,
   mimeType |-> "", i |-> 0, lastError |-> JSNull, calls |-> <<>>,
   errors |-> <<>>, outcome |-> [t |-> "none"]]

\* The loop reading the configurations last to first.
ConfigAt_Reversed(i) == THREE_D_MODEL_CONFIGS[Len(THREE_D_MODEL_CONFIGS) - i]

\* const config = THREE_D_MODEL_CONFIGS[i]
ConfigAt(i) == THREE_D_MODEL_CONFIGS[i + 1]

\* The options of the i-th txt2img call.
AiOptions(g) ==
  LET config == ConfigAt(g.i)
  IN [provider |-> config.provider,
      model |-> IF g.i = 0 /\ Truthy(g.model) THEN g.model.s ELSE config.model,
      input_image |-> IF config.useInputImage THEN g.base64Data ELSE <<>>,
      input_image_mime_type |-> IF config.useInputImage THEN g.mimeType ELSE "",
      ratio |-> config.ratio]

\* The catch block keeping the first error instead of the latest.
Caught_KeepFirst(lastError, error) ==
  IF lastError # JSNull THEN lastError
  ELSE IF error.t = "Error" THEN error ELSE Error(StringOf(error))

\* lastError = error instanceof Error ? error : new Error(String(error))
Caught(lastError, error) ==
  IF error.t = "Error" THEN error ELSE Error(StringOf(error))

\* The error after the loop worded as the documentation has it.
AllFailed_Colon(lastError) ==
  Error(<<"Failed to generate 3D view: ">>
        \o (IF lastError # JSNull THEN lastError.message ELSE StringOf(lastError)))

\* The error thrown after the loop.
AllFailed(lastError) ==
  Error(<<"Failed to generate 3D view (tried ",
          NumStr(Len(THREE_D_MODEL_CONFIGS)), " model(s)): ">>
        \o (IF lastError # JSNull THEN lastError.message ELSE StringOf(lastError)))

\* The rejection of generate3DView with error e.
GenThrow(g, e) == [g EXCEPT !.pc = "g_done", !.outcome = [t |-> "throw", error |-> e]]

\* extractBase64FromDataUrl, getMimeTypeFromUrl and the entry of the loop.
GenAfterDataUrl(g, dataUrl) ==
  IF IndexOf(dataUrl, ",") = 0
    THEN GenThrow(g, Error(<<"Invalid data URL format">>))
  ELSE [g EXCEPT !.pc = "g_try",
                 !.base64Data = SubSeq(dataUrl, IndexOf(dataUrl, ",") + 1, Len(dataUrl)),
                 !.mimeType = getMimeTypeFromUrl(g.imageUrl)]

\* generate3DView(imageUrl, options) up to the first await that leaves the
\* page; a data URL needs no fetch.
GenerateCall ==
  /\ gen.pc = "idle"
  /\ \E imageUrl \in {DataPng, DataNoComma, RemoteJpg, HostedOld},
        model \in {Undefined, EmptyStr, Str(<<"custom-model">>)} :
       LET g == [IdleGen EXCEPT !.imageUrl = imageUrl, !.model = model]
       IN gen' = IF StartsWith(imageUrl, "data:") THEN GenAfterDataUrl(g, imageUrl)
                 ELSE [g EXCEPT !.pc = "g_fetch"]
  /\ UNCHANGED <<signedIn, kvConfig, sites, dirs, slugN, nCreate, tab, pair,
                 workerUrl, kvProj, files, now, viz, pane, home>>

\* fetchAsDataUrl: the fetch rejects, answers with an error status, the
\* reader fails, or the image arrives as a data URL.
G_Fetch ==
  /\ gen.pc = "g_fetch"
  /\ \/ \E m \in {<<"Failed to fetch">>, <<"Failed to fetch image: ", "404", " ", "Not Found">>,
                  <<"FileReader failed to read blob">>} :
          gen' = GenThrow(gen, Error(m))
     \/ gen' = GenAfterDataUrl(gen, ReadAsDataURL(gen.imageUrl))
  /\ UNCHANGED <<signedIn, kvConfig, sites, dirs, slugN, nCreate, tab, pair,
                 workerUrl, kvProj, files, now, viz, pane, home>>

\* One turn of the loop: puter.ai.txt2img with the i-th configuration
\* resolves (return image3D) or rejects (catch, next configuration; the
\* throw after the loop when none is left).
G_Try ==
  /\ gen.pc = "g_try"
  /\ LET called == [gen EXCEPT !.calls = Append(@, AiOptions(gen))]
     IN \/ gen' = [called EXCEPT !.pc = "g_done",
                                 !.outcome = [t |-> "image", of |-> AiOptions(gen)]]
        \/ \E error \in Thrown :
             LET caught == [called EXCEPT !.lastError = Caught(gen.lastError, error),
                                          !.errors = Append(@, error),
                                          !.i = @ + 1]
             IN gen' = IF caught.i < Len(THREE_D_MODEL_CONFIGS) THEN caught
                       ELSE GenThrow(caught, AllFailed(caught.lastError))
  /\ UNCHANGED <<signedIn, kvConfig, sites, dirs, slugN, nCreate, tab, pair,
                 workerUrl, kvProj, files, now, viz, pane, home>>

\* The promise of generate3DView settles.
G_Return ==
  /\ gen.pc = "g_done"
  /\ gen' = IdleGen
  /\ UNCHANGED <<signedIn, kvConfig, sites, dirs, slugN, nCreate, tab, pair,
                 workerUrl, kvProj, files, now, viz, pane, home>>

(*************************** visualizer **********************************)
Calls == 1..MaxGens

\* An HTMLImageElement: the result of call k, or (k = 0) the image loaded
\* from the stored 3D reference.
Image(k) == [t |-> "image", of |-> k]
SavedImage == Image(0)

\* A loaded project; image3D tells whether the record has a 3D reference.
LoadedProject(image3D) == [t |-> "project", image3D |-> image3D]

TimedOutMessage ==
  Str(<<"Request timed out. You can try again or check your balance.">>)
SavedFailedMessage == Str(<<"Could not load saved 3D view. You can regenerate.">>)
LoadErrors ==
  {Str(<<"Please sign in to view projects">>), Str(<<"Project not found">>),
   Str(<<"Failed to load project">>)}

\* What the catch of a generation stores in error3D for a caught value.
CaughtMessage(err) ==
  IF err.t = "Error" THEN Str(err.message) ELSE Str(<<"Failed to generate 3D view">>)

\* Values generate3DView rejects with: the error of a helper as thrown, or
\* the error after the last model configuration failed.
GenRejections ==
  {Error(<<"Invalid data URL format">>), AllFailed(Error(<<"quota exceeded">>))}

\* A run of loadProject not started: pc is the await it is suspended at,
\* state whether the navigation state carries an initial image.
Loads == 1..MaxLoads
IdleLoad == [pc |-> "idle", state |-> FALSE]

\* A generation not started: pc is the await the call is suspended at, timer
\* the state of its setTimeout, firedAt the await at which the timer fired.
IdleCall ==
  [pc |-> "idle", by |-> "", timer |-> "none", firedAt |-> "", hosting |-> FALSE]

\* The page after mounting: React state as declared, no call started; hosted
\* and stored name whose image the image3d file and the record's 3D reference
\* hold (-1 none, 0 one saved by an earlier visit, k the k-th call's).
InitViz ==
  [isLoading |-> TRUE, project |-> JSNull, error |-> JSNull,
   image3D |-> JSNull, isLoadingSaved3D |-> FALSE, isGenerating3D |-> FALSE,
   error3D |-> JSNull, savedDue |-> FALSE, savedLoad |-> "none",
   calls |-> [k \in Calls |-> IdleCall], hosted |-> -1, stored |-> -1,
   loads |-> [n \in Loads |-> IdleLoad]]

HasStored3D(v) == v.project # JSNull /\ v.project.image3D

\* Dependencies of the saved-3D effect: project?.id, project?.image3D, image3D.
SavedDeps(v) == <<v.project # JSNull, HasStored3D(v), v.image3D>>

\* A render after a state update: the saved-3D effect is due when one of its
\* dependencies changed.
Render(old, new) ==
  [new EXCEPT !.savedDue = old.savedDue \/ SavedDeps(old) # SavedDeps(new)]

Started(v) == Cardinality({k \in Calls : v.calls[k].pc # "idle"})

\* The condition of the auto-generate effect. Every value it reads is a
\* dependency of the effect and its body changes one of them, so the effect
\* is due exactly when the condition holds.
AutoCondition(v) ==
  /\ v.project # JSNull
  /\ ~v.isLoading
  /\ v.image3D = JSNull
  /\ ~v.project.image3D
  /\ ~v.isGenerating3D

AutoDue == AutoCondition(viz) /\ Started(viz) < MaxGens

\* React runs the effects of a commit before the next event is handled.
EffectsFlushed == ~viz.savedDue /\ ~AutoDue

\* The 3D panel the render shows.
View(v) ==
  CASE v.project = JSNull -> IF v.isLoading THEN "loading" ELSE "error"
    [] v.image3D # JSNull -> "ready-with-3d"
    [] v.isLoadingSaved3D -> "loading-saved-3d"
    [] v.isGenerating3D -> "generating-3d"
    [] v.error3D # JSNull -> "error-3d"
    [] OTHER -> "ready-no-3d"

\* The view controls as declared: zoom in tenths, the slider in percent.
ZoomOne == 10
Origin == [x |-> 0, y |-> 0]
SliderStart == 50
InitPane ==
  [viewMode |-> "split", zoom2D |-> ZoomOne, zoom3D |-> ZoomOne,
   pan2D |-> Origin, pan3D |-> Origin, isDragging2D |-> FALSE,
   isDragging3D |-> FALSE, comparisonSlider |-> SliderStart, moves |-> 0]

\* A state update of the page that sets the view controls to p.
VizStepWith(new, p) ==
  /\ viz' = Render(viz, new)
  /\ pane' = p
  /\ UNCHANGED <<signedIn, kvConfig, sites, dirs, slugN, nCreate, tab, pair,
                 workerUrl, kvProj, files, now, gen, home>>

VizStep(new) == VizStepWith(new, pane)

\* A generation that leaves the view controls alone whoever started it.
RegeneratedPane_Untouched(p, by) == p

\* What handleRegenerate3D does to the view controls once its image is
\* there; the auto-generate effect leaves them alone.
RegeneratedPane(p, by) ==
  IF by = "regenerate" THEN [p EXCEPT !.zoom3D = ZoomOne, !.pan3D = Origin]
  ELSE p

\* loadProject: the record from the server (with or without a 3D reference),
\* the project handed over in the navigation state, or an error.
V_Load ==
  /\ viz.isLoading
  /\ \/ \E image3D \in BOOLEAN :
          VizStep([viz EXCEPT !.isLoading = FALSE, !.project = LoadedProject(image3D),
                              !.hosted = IF image3D THEN 0 ELSE -1,
                              !.stored = IF image3D THEN 0 ELSE -1])
     \/ \E e \in LoadErrors :
          VizStep([viz EXCEPT !.isLoading = FALSE, !.error = e])

\* The saved-3D effect: its cleanup cancels a pending load, then it starts
\* loading the stored 3D image unless there is none or an image is held.
V_SavedEffect ==
  /\ viz.savedDue
  /\ LET v == [viz EXCEPT !.savedDue = FALSE, !.savedLoad = "none"]
     IN /\ viz' = IF ~HasStored3D(viz)
                    THEN [v EXCEPT !.isLoadingSaved3D = FALSE]
                  ELSE IF viz.image3D # JSNull THEN v
                  ELSE [v EXCEPT !.isLoadingSaved3D = TRUE, !.error3D = JSNull,
                                 !.savedLoad = "pending"]
        /\ UNCHANGED <<signedIn, kvConfig, sites, dirs, slugN, nCreate, tab, pair,
                       workerUrl, kvProj, files, now, gen, pane, home>>

\* img.onload and img.onerror of the saved 3D image.
V_SavedLoaded ==
  /\ EffectsFlushed
  /\ viz.savedLoad = "pending"
  /\ \/ VizStep([viz EXCEPT !.savedLoad = "none", !.image3D = SavedImage,
                            !.isLoadingSaved3D = FALSE])
     \/ VizStep([viz EXCEPT !.savedLoad = "none", !.isLoadingSaved3D = FALSE,
                            !.error3D = SavedFailedMessage])

\* The start of a generation: flag, error and timer, then generate3DView.
StartCall(v, by) ==
  [v EXCEPT !.isGenerating3D = TRUE, !.error3D = JSNull,
            !.calls[Started(v) + 1] =
               [IdleCall EXCEPT !.pc = "generate", !.by = by, !.timer = "armed"]]

\* The auto-generate effect.
V_AutoGenerate ==
  /\ ~viz.savedDue
  /\ AutoDue
  /\ VizStep(StartCall(viz, "effect"))

\* The Regenerate button is rendered, in the split view of the branch that
\* shows the 3D image, and not disabled.
RegenerateAvailable(v) ==
  /\ View(v) = "ready-with-3d"
  /\ pane.viewMode = "split"
  /\ ~v.isGenerating3D

\* handleRegenerate3D, from the button of the 3D pane.
V_Regenerate ==
  /\ EffectsFlushed
  /\ RegenerateAvailable(viz)
  /\ Started(viz) < MaxGens
  /\ VizStep(StartCall([viz EXCEPT !.image3D = JSNull], "regenerate"))

\* The callback of setTimeout.
V_Timeout ==
  /\ EffectsFlushed
  /\ \E k \in Calls :
       /\ viz.calls[k].timer = "armed"
       /\ VizStep([viz EXCEPT !.calls[k].timer = "fired",
                              !.calls[k].firedAt = viz.calls[k].pc,
                              !.isGenerating3D = FALSE,
                              !.error3D = TimedOutMessage])

\* The finally of a generation: clearTimeout, flag off.
Finally(v, k) ==
  [v EXCEPT !.calls[k].pc = "done",
            !.calls[k].timer = IF @ = "armed" THEN "cleared" ELSE @,
            !.isGenerating3D = FALSE]

\* generate3DView settles: the image is shown and the call goes on to
\* persist it, or the catch stores the message.
V_Generated ==
  /\ EffectsFlushed
  /\ \E k \in Calls :
       /\ viz.calls[k].pc = "generate"
       /\ \/ VizStepWith([viz EXCEPT !.image3D = Image(k), !.calls[k].pc = "hosting"],
                          RegeneratedPane(pane, viz.calls[k].by))
          \/ \E err \in GenRejections :
               VizStep(Finally([viz EXCEPT !.error3D = CaughtMessage(err)], k))

\* getOrCreateHostingConfig answers a configuration or null.
V_Hosting ==
  /\ EffectsFlushed
  /\ \E k \in Calls, ok \in BOOLEAN :
       /\ viz.calls[k].pc = "hosting"
       /\ VizStep([viz EXCEPT !.calls[k].pc = "upload", !.calls[k].hosting = ok])

\* uploadImageToHosting answers the hosted asset, the image3d file written,
\* or null; without hosted?.url the call ends.
V_Upload ==
  /\ EffectsFlushed
  /\ \E k \in Calls :
       /\ viz.calls[k].pc = "upload"
       /\ \/ /\ viz.calls[k].hosting
             /\ VizStep([viz EXCEPT !.calls[k].pc = "update", !.hosted = k])
          \/ VizStep(Finally(viz, k))

\* updateProject answers the saved record, which becomes the project, or
\* null.
V_Update ==
  /\ EffectsFlushed
  /\ \E k \in Calls :
       /\ viz.calls[k].pc = "update"
       /\ \/ VizStep(Finally([viz EXCEPT !.stored = k, !.project = LoadedProject(TRUE)], k))
          \/ VizStep(Finally(viz, k))

(*************************** visualizer: loading **************************)
LoadsStarted(v) == Cardinality({n \in Loads : v.loads[n].pc # "idle"})

\* The end of loadProject that leaves the spinner on.
LoadDone_StillLoading(v, n) == [v EXCEPT !.loads[n].pc = "done"]

\* The finally of loadProject.
LoadDone(v, n) == [v EXCEPT !.loads[n].pc = "done", !.isLoading = FALSE]

\* loadProject after the server had nothing: the project handed over in the
\* navigation state, or an error.
LoadFallback(v, n) ==
  LoadDone(IF v.loads[n].state THEN [v EXCEPT !.project = LoadedProject(FALSE)]
           ELSE IF ~signedIn
             THEN [v EXCEPT !.error = Str(<<"Please sign in to view projects">>)]
           ELSE [v EXCEPT !.error = Str(<<"Project not found">>)], n)

\* The load effect runs, on mounting or when the route's id or the navigation
\* state changed: spinner on, error cleared, then getProject when signed in.
L_Start ==
  /\ LoadsStarted(viz) < MaxLoads
  /\ \E state \in BOOLEAN :
       LET n == LoadsStarted(viz) + 1
           v == [viz EXCEPT !.isLoading = TRUE, !.error = JSNull,
                            !.loads[n] = [pc |-> "getProject", state |-> state]]
       IN VizStep(IF signedIn THEN v ELSE LoadFallback(v, n))

\* getProject settles with the record or with null.
L_GetProject ==
  \E n \in Loads :
    /\ viz.loads[n].pc = "getProject"
    /\ \/ \E image3D \in BOOLEAN :
            VizStep(LoadDone([viz EXCEPT !.project = LoadedProject(image3D),
                                         !.hosted = IF image3D THEN 0 ELSE -1,
                                         !.stored = IF image3D THEN 0 ELSE -1], n))
       \/ VizStep(LoadFallback(viz, n))

\* The screen the route renders.
Screen(v) ==
  IF v.isLoading THEN "loading"
  ELSE IF v.error # JSNull \/ v.project = JSNull THEN "Project Not Found"
  ELSE "ready"

(*************************** view controls ********************************)
\* Zoom limits and steps, in tenths.
ZoomMin == 5
ZoomMax == 30
ButtonStep == 2
WheelStep == 1
SliderMin == 0
SliderMax == 100

Min(a, b) == IF a < b THEN a ELSE b
Max(a, b) == IF a > b THEN a ELSE b

\* Math.max(lo, x): the clamp without its upper limit.
Clamp_NoUpper(lo, hi, x) == Max(lo, x)

\* Math.max(lo, Math.min(hi, x)).
Clamp(lo, hi, x) == Max(lo, Min(hi, x))

PaneTypes == {"2d", "3d"}

\* The pane of the given type is rendered with its controls: the 2D pane
\* beside the 3D image or alone when there is nothing else to show, the 3D
\* pane with the 3D image.
PaneShown(type) ==
  \/ View(viz) = "ready-with-3d"
  \/ type = "2d" /\ View(viz) = "ready-no-3d"

\* A gesture on the view controls that leaves them as p.
PaneStep(p) ==
  /\ EffectsFlushed
  /\ pane.moves < MaxMoves
  /\ pane' = [p EXCEPT !.moves = pane.moves + 1]
  /\ UNCHANGED <<signedIn, kvConfig, sites, dirs, slugN, nCreate, tab, pair,
                 workerUrl, kvProj, files, now, gen, viz, home>>

\* The zoom of one pane moved by delta and clamped.
Zoomed(p, type, delta) ==
  IF type = "2d" THEN [p EXCEPT !.zoom2D = Clamp(ZoomMin, ZoomMax, @ + delta)]
  ELSE [p EXCEPT !.zoom3D = Clamp(ZoomMin, ZoomMax, @ + delta)]

\* handleZoom, from the zoom buttons of a pane; the split view has them.
P_Zoom ==
  \E type \in PaneTypes, direction \in {"in", "out"} :
    /\ PaneShown(type)
    /\ pane.viewMode = "split" \/ View(viz) = "ready-no-3d"
    /\ PaneStep(Zoomed(pane, type, IF direction = "in" THEN ButtonStep ELSE -ButtonStep))

\* handleWheel over a pane: nothing in the single view.
P_Wheel ==
  \E type \in PaneTypes, up \in BOOLEAN :
    /\ PaneShown(type)
    /\ PaneStep(IF pane.viewMode = "single" THEN pane
                ELSE Zoomed(pane, type, IF up THEN WheelStep ELSE -WheelStep))

\* Switching to the single view without touching zoom and pan.
ToggledViewMode_NoReset(p) ==
  [p EXCEPT !.viewMode = IF @ = "split" THEN "single" ELSE "split"]

\* The view mode toggle: switching to single resets zoom and pan of both
\* panes.
ToggledViewMode(p) ==
  IF p.viewMode = "split"
    THEN [p EXCEPT !.viewMode = "single", !.zoom2D = ZoomOne, !.zoom3D = ZoomOne,
                   !.pan2D = Origin, !.pan3D = Origin]
  ELSE [p EXCEPT !.viewMode = "split"]

P_ToggleViewMode ==
  /\ View(viz) = "ready-with-3d"
  /\ PaneStep(ToggledViewMode(pane))

\* handleMouseDown on a pane, off its buttons.
P_MouseDown ==
  \E type \in PaneTypes :
    /\ PaneShown(type)
    /\ PaneStep(IF type = "2d" THEN [pane EXCEPT !.isDragging2D = TRUE]
                ELSE [pane EXCEPT !.isDragging3D = TRUE])

\* Mouse movements since the last one, as steps along both axes.
DragDeltas == {[x |-> 1, y |-> 1], [x |-> -1, y |-> -1]}

Moved(pan, d) == [x |-> pan.x + d.x, y |-> pan.y + d.y]

\* The pane dragged by d dragging the pane of the other type as well.
Dragged_Both(p, d) ==
  IF p.isDragging2D \/ p.isDragging3D
    THEN [p EXCEPT !.pan2D = Moved(@, d), !.pan3D = Moved(@, d)]
  ELSE p

\* handleGlobalMouseMove: the pane being dragged follows the mouse.
Dragged(p, d) ==
  IF p.isDragging2D THEN [p EXCEPT !.pan2D = Moved(@, d)]
  ELSE IF p.isDragging3D THEN [p EXCEPT !.pan3D = Moved(@, d)]
  ELSE p

P_MouseMove ==
  \E d \in DragDeltas :
    /\ pane.isDragging2D \/ pane.isDragging3D
    /\ PaneStep(Dragged(pane, d))

\* handleGlobalMouseUp.
P_MouseUp ==
  /\ pane.isDragging2D \/ pane.isDragging3D
  /\ PaneStep([pane EXCEPT !.isDragging2D = FALSE, !.isDragging3D = FALSE])

\* Positions of the mouse over the comparison container, in percent of its
\* width from its left edge; the mouse may be outside.
SliderPercents == {-20, 0, 37, 100, 130}

\* handleMove of the comparison slider, in the single view.
P_SliderMove ==
  \E percent \in SliderPercents :
    /\ View(viz) = "ready-with-3d"
    /\ pane.viewMode = "single"
    /\ PaneStep([pane EXCEPT !.comparisonSlider = Clamp(SliderMin, SliderMax, percent)])

\* The page showing the stored 3D image of a loaded project, no generation
\* started.
ShownViz ==
  [InitViz EXCEPT !.isLoading = FALSE, !.project = LoadedProject(TRUE),
                  !.image3D = SavedImage, !.hosted = 0, !.stored = 0]

\* A pane dragged off its origin.
Off == [x |-> 1, y |-> 1]

\* View controls in the split view as gestures can leave them.
PaneStarts ==
  {[InitPane EXCEPT !.zoom2D = z2, !.zoom3D = z3, !.pan2D = p2, !.pan3D = p3] :
     z2 \in {ZoomOne, ZoomMax}, z3 \in {ZoomMin, ZoomMax},
     p2 \in {Origin, Off}, p3 \in {Origin, Off}}

(*************************** home: upload ********************************)
\* Files offered to the Upload component in one run.
MaxFiles == 2

UploadFiles == 1..MaxFiles

\* Math.min(currentProgress, 100) and currentProgress >= 100.
ProgressFull == 100

\* PROGRESS_STEP is imported from lib/constants: a step that overshoots 100,
\* one that meets it after two ticks and one that meets it at once.
ProgressSteps == {40, 50, 100}

\* A handleUploadComplete call that has not begun.
NoComplete == [pc |-> "none", saved |-> FALSE, ret |-> "none"]

\* The Home page as mounted: the Upload component's state, refs and timers,
\* the project list, and one handleUploadComplete call per accepted file.
\* awaits: the component awaits the promise onComplete returns before it
\* shows the dropzone again. offered, accepted, called, readFailed, stored
\* and navigated record what has happened.
HomeStart(step, awaits) ==
  [step |-> step, awaits |-> awaits, mounted |-> TRUE,
   isDragging |-> FALSE, isProcessing |-> FALSE, progress |-> 0,
   currentProgress |-> 0, pc |-> "idle", file |-> 0,
   offered |-> 0, accepted |-> 0,
   called |-> [f \in UploadFiles |-> 0], readFailed |-> {},
   huc |-> [f \in UploadFiles |-> NoComplete],
   projets |-> <<>>, stored |-> {}, navigated |-> <<>>]

InitHome == HomeStart(ProgressFull, FALSE)

HomeStarts == {HomeStart(step, awaits) : step \in ProgressSteps, awaits \in BOOLEAN}

HomeStep(h) ==
  /\ home' = h
  /\ UNCHANGED <<signedIn, kvConfig, sites, dirs, slugN, nCreate, tab, pair,
                 workerUrl, kvProj, files, now, gen, viz, pane>>

\* The dropzone is rendered, and with it the file input.
DropzoneShown(h) == h.mounted /\ ~h.isProcessing

\* processFile(file): nothing when signed out; otherwise the processing
\* panel replaces the dropzone and reader.readAsDataURL(file) begins.
ProcessFile(h, isSignedIn) ==
  IF ~isSignedIn THEN h
  ELSE [h EXCEPT !.isProcessing = TRUE, !.progress = 0, !.pc = "reading",
                 !.accepted = @ + 1, !.file = h.accepted + 1]

\* handleDragOver with a signed-in user.
HandleDragOver ==
  /\ DropzoneShown(home)
  /\ signedIn
  /\ ~home.isDragging
  /\ HomeStep([home EXCEPT !.isDragging = TRUE])

HandleDragLeave ==
  /\ DropzoneShown(home)
  /\ home.isDragging
  /\ HomeStep([home EXCEPT !.isDragging = FALSE])

\* handleDrop with a file: the drag ends, and the file is processed when the
\* user is signed in.
HandleDrop ==
  /\ DropzoneShown(home)
  /\ home.offered < MaxFiles
  /\ HomeStep(IF ~signedIn
                THEN [home EXCEPT !.isDragging = FALSE, !.offered = @ + 1]
                ELSE ProcessFile([home EXCEPT !.isDragging = FALSE, !.offered = @ + 1],
                                 signedIn))

\* handleFileChange with a file; the input is disabled for a signed-out user.
HandleFileChange ==
  /\ DropzoneShown(home)
  /\ home.offered < MaxFiles
  /\ signedIn
  /\ HomeStep(ProcessFile([home EXCEPT !.offered = @ + 1], signedIn))

\* reader.onload: the progress interval starts from 0.
ReaderOnload ==
  /\ home.pc = "reading"
  /\ HomeStep([home EXCEPT !.currentProgress = 0, !.pc = "interval"])

\* reader.onerror: back to the dropzone; onComplete is not scheduled.
ReaderOnerror ==
  /\ home.pc = "reading"
  /\ HomeStep([home EXCEPT !.isProcessing = FALSE, !.progress = 0,
                           !.pc = "idle", !.file = 0,
                           !.readFailed = @ \cup {home.file}])

\* One tick of the progress interval; at 100 the interval is cleared and the
\* redirect timeout is set.
ProgressTick ==
  /\ home.pc = "interval"
  /\ LET current == home.currentProgress + home.step
     IN HomeStep([home EXCEPT !.currentProgress = current,
                              !.progress = Min(current, ProgressFull),
                              !.pc = IF current >= ProgressFull THEN "timeout"
                                     ELSE "interval"])

\* onComplete invoked twice for the file.
CompleteBegun_Twice(h, f) ==
  [h EXCEPT !.called[f] = @ + 2,
            !.huc[f] = [pc |-> "createProject", saved |-> FALSE, ret |-> "none"]]

\* handleUploadComplete up to `await createProject(...)`.
CompleteBegun(h, f) ==
  [h EXCEPT !.called[f] = @ + 1,
            !.huc[f] = [pc |-> "createProject", saved |-> FALSE, ret |-> "none"]]

\* The Upload component after the processing of its file.
UploadReset(h) ==
  [h EXCEPT !.isProcessing = FALSE, !.progress = 0, !.pc = "idle", !.file = 0]

\* The redirect timeout fires REDIRECT_DELAY_MS after the last tick:
\* onComplete(base64String), then the reset, at once or once the promise
\* onComplete returned has settled.
RedirectTimeout ==
  /\ home.pc = "timeout"
  /\ LET h == CompleteBegun(home, home.file)
     IN HomeStep(IF home.awaits THEN [h EXCEPT !.pc = "onComplete"]
                 ELSE UploadReset(h))

\* finally, in the component that awaits onComplete.
OnCompleteSettled ==
  /\ home.pc = "onComplete"
  /\ home.huc[home.file].pc = "done"
  /\ HomeStep(UploadReset(home))

\* setProjets on the mounted page; React drops the update once the page has
\* been left.
SetProjets(h, list) == IF h.mounted THEN [h EXCEPT !.projets = list] ELSE h

\* handleUploadComplete going on after createProject whatever it returned.
AfterCreate_Unchecked(h, f, saved) ==
  [h EXCEPT !.huc[f].pc = "head", !.huc[f].saved = saved]

\* handleUploadComplete after `await createProject`: false for null; with a
\* record, on to the HEAD request for saved.sourceImage.
AfterCreate(h, f, saved) ==
  IF ~saved THEN [h EXCEPT !.huc[f].pc = "done", !.huc[f].ret = "false"]
  ELSE [h EXCEPT !.huc[f].pc = "head", !.huc[f].saved = TRUE]

\* createProject settles: null with nothing stored, null although the worker
\* stored the record (the response was lost), or the stored record.
HUC_Created ==
  \E f \in UploadFiles :
    /\ home.huc[f].pc = "createProject"
    /\ \E saved \in BOOLEAN, kept \in BOOLEAN :
         /\ saved => kept
         /\ HomeStep(AfterCreate([home EXCEPT !.stored = IF kept THEN @ \cup {f} ELSE @],
                                 f, saved))

\* The HEAD request settles, whatever its outcome: the record is put at the
\* head of the list and loadProjects begins. The call closes over the
\* isSignedIn of the render that accepted the file, so loadProjects goes on
\* to puter.kv.list.
HUC_Verified ==
  \E f \in UploadFiles :
    /\ home.huc[f].pc = "head"
    /\ HomeStep(SetProjets([home EXCEPT !.huc[f].pc = "loadProjects"],
                           <<f>> \o home.projets))

\* The stored projects, newest first.
RECURSIVE NewestFirst(_)
NewestFirst(S) ==
  IF S = {} THEN <<>>
  ELSE LET m == CHOOSE x \in S : \A y \in S : y <= x
       IN <<m>> \o NewestFirst(S \ {m})

\* loadProjects settles, with the stored projects or with none after an
\* error; then navigate(`/visualizer/${newId}`) and return true.
HUC_Loaded ==
  \E f \in UploadFiles :
    /\ home.huc[f].pc = "loadProjects"
    /\ \E ok \in BOOLEAN :
         LET h == SetProjets(home, IF ok THEN NewestFirst(home.stored) ELSE <<>>)
         IN HomeStep([h EXCEPT !.huc[f].pc = "done", !.huc[f].ret = "true",
                               !.navigated = Append(@, f), !.mounted = FALSE])

(*************************** environment **********************************)
\* The account signs in or out (puter.auth).
SignInOut ==
  /\ signedIn' = ~signedIn
  /\ UNCHANGED <<kvConfig, sites, dirs, slugN, nCreate, tab, pair, outsideHost>>

\* The hosting backend is externally managed: a registered namespace may
\* disappear, after which it no longer resolves.
SiteRemoved ==
  /\ \E s \in sites : sites' = sites \ {s}
  /\ UNCHANGED <<signedIn, kvConfig, dirs, slugN, nCreate, tab, pair, outsideHost>>

(*************************** specifications *******************************)
Init ==
  /\ signedIn \in BOOLEAN
  /\ kvConfig = JSNull
  /\ sites = {}
  /\ dirs = {}
  /\ slugN = 0
  /\ nCreate = 0
  /\ tab = [t \in Tabs |-> IdleTab]
  /\ pair = [t \in Tabs |-> NoPair]
  /\ workerUrl \in BOOLEAN
  /\ kvProj = {}
  /\ files = {}
  /\ now = 0
  /\ gen = IdleGen
  /\ viz = InitViz
  /\ pane = InitPane
  /\ home = InitHome

\* The start of a build that has PUTER_WORKER_URL configured; the hosting
\* manager, the uploader and the generator never read it.
InitConfigured == Init /\ workerUrl

\* Two tabs of one account calling getOrCreateHostingConfig.
NextHost ==
  \/ \E t \in Tabs : HostingCall(t)
  \/ \E t \in Tabs : HostingStep(t) /\ UNCHANGED pair
  \/ \E t \in Tabs : HostingReturn(t)
  \/ SignInOut
  \/ SiteRemoved

SpecHost == InitConfigured /\ [][NextHost]_vars

\* One client creating, updating and reading projects, uploading assets, and
\* HTTP clients posting to the save endpoint.
NextStore ==
  \/ CreateCall(Client)
  \/ HostingStep(Client) /\ UNCHANGED pair
  \/ C_AfterHosting(Client)
  \/ UploadStep(Client)
  \/ C_AfterUpload(Client)
  \/ UpdateCall(Client)
  \/ SaveExec(Client)
  \/ GetCall(Client)
  \/ GetExec(Client)
  \/ ListCall(Client)
  \/ ListExec(Client)
  \/ SaveRequest(Client)
  \/ Return(Client)
  \/ SignInOut

SpecStore == Init /\ [][NextStore]_vars

\* uploadImageToHosting called on its own.
NextUpload ==
  \/ UploadCall(Client)
  \/ UploadStep(Client)
  \/ Return(Client)

SpecUpload == InitConfigured /\ [][NextUpload]_vars

\* generate3DView called from the visualizer.
NextGen ==
  \/ GenerateCall
  \/ G_Fetch
  \/ G_Try
  \/ G_Return

SpecGen == InitConfigured /\ [][NextGen]_vars

\* The Visualizer page from mounting on.
NextViz ==
  \/ V_Load
  \/ V_SavedEffect
  \/ V_SavedLoaded
  \/ V_AutoGenerate
  \/ V_Regenerate
  \/ V_Timeout
  \/ V_Generated
  \/ V_Hosting
  \/ V_Upload
  \/ V_Update

SpecViz == InitConfigured /\ [][NextViz]_vars

\* The Visualizer page with its view controls, generations faster than the
\* timer.
NextPanes ==
  \/ V_SavedEffect
  \/ V_SavedLoaded
  \/ V_Regenerate
  \/ V_Generated
  \/ V_Hosting
  \/ V_Upload
  \/ V_Update
  \/ P_Zoom
  \/ P_Wheel
  \/ P_ToggleViewMode
  \/ P_MouseDown
  \/ P_MouseMove
  \/ P_MouseUp
  \/ P_SliderMove

\* The page of a signed-in user showing the stored 3D image of a project,
\* the panes zoomed and dragged to where earlier gestures left them.
InitPanes ==
  /\ signedIn = TRUE
  /\ kvConfig = JSNull
  /\ sites = {}
  /\ dirs = {}
  /\ slugN = 0
  /\ nCreate = 0
  /\ tab = [t \in Tabs |-> IdleTab]
  /\ pair = [t \in Tabs |-> NoPair]
  /\ workerUrl = TRUE
  /\ kvProj = {}
  /\ files = {}
  /\ now = 0
  /\ gen = IdleGen
  /\ viz = ShownViz
  /\ pane \in PaneStarts
  /\ home = InitHome

SpecPanes == InitPanes /\ [][NextPanes]_vars

\* The Visualizer loading its project, the account signing in and out.
NextLoad ==
  \/ L_Start
  \/ L_GetProject
  \/ SignInOut

SpecLoad == InitConfigured /\ [][NextLoad]_vars

\* The effect runs after mounting and getProject settles.
FairSpecLoad == SpecLoad /\ WF_vars(L_Start) /\ WF_vars(L_GetProject)

\* The Home page with its Upload component, for either Upload component and
\* every progress step.
NextHome ==
  \/ HandleDragOver
  \/ HandleDragLeave
  \/ HandleDrop
  \/ HandleFileChange
  \/ ReaderOnload
  \/ ReaderOnerror
  \/ ProgressTick
  \/ RedirectTimeout
  \/ OnCompleteSettled
  \/ HUC_Created
  \/ HUC_Verified
  \/ HUC_Loaded
  \/ SignInOut

InitHomes ==
  /\ signedIn \in BOOLEAN
  /\ kvConfig = JSNull
  /\ sites = {}
  /\ dirs = {}
  /\ slugN = 0
  /\ nCreate = 0
  /\ tab = [t \in Tabs |-> IdleTab]
  /\ pair = [t \in Tabs |-> NoPair]
  /\ workerUrl = TRUE
  /\ kvProj = {}
  /\ files = {}
  /\ now = 0
  /\ gen = IdleGen
  /\ viz = InitViz
  /\ pane = InitPane
  /\ home \in HomeStarts

SpecHome == InitHomes /\ [][NextHome]_vars

\* The FileReader settles, timers fire and promises settle.
FairSpecHome ==
  /\ SpecHome
  /\ WF_vars(ReaderOnload) /\ WF_vars(ReaderOnerror)
  /\ WF_vars(ProgressTick) /\ WF_vars(RedirectTimeout)
  /\ WF_vars(OnCompleteSettled)
  /\ WF_vars(HUC_Created) /\ WF_vars(HUC_Verified) /\ WF_vars(HUC_Loaded)

\* The worker's endpoints answering requests of any HTTP client.
NextWorker ==
  \/ SaveRequestUpTo(Client, MaxSaves)
  \/ GetRequest(Client)
  \/ ListRequest(Client)
  \/ Return(Client)

SpecWorker == InitConfigured /\ [][NextWorker]_vars

(*************************** claims: hosting ******************************)
\* C4: two calls of getOrCreateHostingConfig in sequence by a signed-in
\* account, with no backend call failing and no other call in flight from
\* the start of the first to the end of the second, return the same
\* namespace, and the second creates no namespace.
C4_StableNamespace == \A t \in Tabs : pair[t].verdict # "differ"

\* C4 witness: a second call in sequence returned the namespace of the first.
C4_Witness == \E t \in Tabs : pair[t].verdict = "same" /\ Truthy(pair[t].last)

C6_ResolvingNamespaceKept ==
  \A t \in Tabs :
    (Truthy(tab[t].existing) /\ tab[t].resolved) =>
      /\ tab[t].created = 0
      /\ tab[t].pc # "h_kvSet"

Unresolvable(r) ==
  /\ ~(Truthy(r.hostedSource) /\ r.hostedSource.url # <<>>)
  /\ ~isHostedUrl(r.item.sourceImage)

Finished(t, op) == tab[t].pc = "ret" /\ tab[t].op = op

C3_HostedUrlReturned ==
  (tab[Client].pc = "u_ret" /\ tab[Client].op = "upload"
     /\ isHostedUrl(tab[Client].up.url)) =>
    /\ tab[Client].up.ret = HostedAsset(tab[Client].up.url.s)
    /\ tab[Client].up.io = <<>>

\* C3 amended: for an already hosted URL uploadImageToHosting makes no
\* fetch, no directory create and no file write; it returns the URL
\* unchanged when a hosting configuration is given and null when none is.
C3_HostedUrlNoUpload ==
  (tab[Client].pc = "u_ret" /\ tab[Client].op = "upload"
     /\ isHostedUrl(tab[Client].up.url)) =>
    /\ tab[Client].up.io = <<>>
    /\ tab[Client].up.path = <<>>
    /\ tab[Client].up.ret = IF Truthy(tab[Client].up.hosting)
                              THEN HostedAsset(tab[Client].up.url.s) ELSE JSNull

\* C3 witness: an upload of a hosted URL with a hosting configuration has
\* returned, with files already in the file system.
C3_Witness ==
  /\ tab[Client].pc = "u_ret" /\ tab[Client].op = "upload"
  /\ isHostedUrl(tab[Client].up.url)
  /\ Truthy(tab[Client].up.hosting)
  /\ files # {}

\* C9: getProject for an id with no stored record returns null; the get
\* endpoint answers 404 for it to an authenticated request.
C9_MissingIsNull ==
  /\ (Finished(Client, "get") /\ Truthy(tab[Client].item)
        /\ KvGet(kvProj, <<PROJECT_PREFIX>> \o tab[Client].item.s) = JSNull) =>
       /\ tab[Client].ret = JSNull
       /\ tab[Client].status \in {0, 401, 404, 500}
  /\ \A p \in ProjectIds :
       KvGet(kvProj, <<PROJECT_PREFIX, p>>) = JSNull =>
         GetEndpoint(kvProj, "ok", Str(<<p>>), TRUE).status = 404

\* C9 witness: the endpoint answered 404 for an id while another record is
\* stored, and getProject returned null.
C9_Witness ==
  /\ Finished(Client, "get")
  /\ tab[Client].status = 404
  /\ tab[Client].ret = JSNull
  /\ kvProj # {}

\* The body is malformed, has no project object, or its project has a
\* sourceImage that is missing or not a string.
BadBody(body) ==
  \/ body.t # "object"
  \/ body.project.t # "object"
  \/ body.project.sourceImage.t # "string"

\* C10: the save endpoint answers 400 to an authenticated request with such
\* a body and leaves the key-value store unchanged.
C10_BadBodyRejected ==
  (Finished(Client, "saveRequest") /\ tab[Client].user = "ok"
     /\ BadBody(tab[Client].item)) =>
    (tab[Client].status = 400 /\ ~tab[Client].wrote)

\* C10 witness: a project whose sourceImage is not a string was rejected.
C10_Witness ==
  /\ Finished(Client, "saveRequest")
  /\ tab[Client].user = "ok"
  /\ tab[Client].item.t = "object"
  /\ tab[Client].item.project.t = "object"
  /\ tab[Client].item.project.sourceImage.t = "number"
  /\ tab[Client].status = 400

(*************************** claims: generation ***************************)
\* The k-th configuration as generate3DView is to call it for override m.
Expected(k, m) ==
  [provider |-> THREE_D_MODEL_CONFIGS[k].provider,
   model |-> IF k = 1 /\ Truthy(m) THEN m.s ELSE THREE_D_MODEL_CONFIGS[k].model]

CallsInOrder ==
  \A k \in 1..Len(gen.calls) :
    /\ k <= Len(THREE_D_MODEL_CONFIGS)
    /\ gen.calls[k].provider = Expected(k, gen.model).provider
    /\ gen.calls[k].model = Expected(k, gen.model).model

\* C7: generate3DView calls the configurations in their fixed order, each
\* after the failure of the one before; when the N-th is the first to
\* succeed it returns the N-th's image and has called none beyond N.
C7_FallbackOrder ==
  /\ CallsInOrder
  /\ gen.outcome.t = "image" =>
       /\ Len(gen.calls) = Len(gen.errors) + 1
       /\ gen.outcome.of = gen.calls[Len(gen.calls)]
       /\ gen.outcome.of.provider = Expected(Len(gen.calls), gen.model).provider
       /\ gen.outcome.of.model = Expected(Len(gen.calls), gen.model).model
  /\ gen.outcome.t # "image" => Len(gen.calls) = Len(gen.errors)

\* C7 witness: the second configuration succeeded after the first failed.
C7_Witness ==
  /\ gen.pc = "g_done"
  /\ gen.outcome.t = "image"
  /\ Len(gen.calls) = 2
  /\ Len(gen.errors) = 1

\* The message of a thrown value as the catch block reads it.
MessageOf(e) == IF e.t = "Error" THEN e.message ELSE StringOf(e)

\* C8: when every configuration fails, generate3DView has made exactly one
\* call per configuration and throws one error whose message names the
\* number of configurations and the message of the last error.
C8_AllFailError ==
  (gen.pc = "g_done" /\ Len(gen.errors) = Len(THREE_D_MODEL_CONFIGS)) =>
    /\ Len(gen.calls) = Len(THREE_D_MODEL_CONFIGS)
    /\ CallsInOrder
    /\ gen.outcome.t = "throw"
    /\ gen.outcome.error.message =
         <<"Failed to generate 3D view (tried ", "3", " model(s)): ">>
           \o MessageOf(gen.errors[Len(gen.errors)])

\* C8 witness: all configurations failed, the first and the last with
\* different errors.
C8_Witness ==
  /\ gen.pc = "g_done"
  /\ gen.outcome.t = "throw"
  /\ Len(gen.errors) = Len(THREE_D_MODEL_CONFIGS)
  /\ gen.errors[1] # gen.errors[Len(gen.errors)]

(*************************** claims: worker endpoints *********************)
Requests == {"saveRequest", "getRequest", "listRequest"}

\* C11 as stated: each of the list, get and save endpoints answers 401 to
\* a request with no user or with a user without a backend handle, and
\* makes no key-value call for it.
C11_Unauthenticated401 ==
  \A op \in Requests :
    (Finished(Client, op) /\ tab[Client].user \in {"none", "noputer"}) =>
      /\ tab[Client].status = 401
      /\ tab[Client].io = <<>>
      /\ ~tab[Client].wrote

\* The save request that has just been answered succeeded.
Saved == Finished(Client, "saveRequest") /\ tab[Client].status = 200

\* The key under which the save endpoint stored the posted project.
SavedKey == SaveKey(tab[Client].item.project, UserId)

\* The response of a save is the stored record, with the server's timestamp.
SaveReturnsStored ==
  Saved =>
    /\ tab[Client].ret = KvGet(kvProj, SavedKey)
    /\ tab[Client].ret =
         [tab[Client].item.project EXCEPT !.updatedAt = ISOString(now - 1)]
    /\ tab[Client].ret.updatedAt # tab[Client].item.project.updatedAt
    /\ Truthy(tab[Client].item.project.id) =>
         LET resp == GetEndpoint(kvProj, "ok", tab[Client].item.project.id, TRUE)
         IN resp.status = 200 /\ resp.project = tab[Client].ret

\* A successful get answers with the record stored under the id.
GetReturnsStored ==
  (Finished(Client, "getRequest") /\ tab[Client].status = 200) =>
    tab[Client].ret = KvGet(kvProj, <<PROJECT_PREFIX>> \o tab[Client].item.s)

\* The record stored under a key changes only by a successful save to that
\* key.
ChangedOnlyBySave ==
  \A k \in {e.key : e \in kvProj \cup kvProj'} :
    KvGet(kvProj', k) # KvGet(kvProj, k) =>
      /\ tab'[Client].op = "saveRequest"
      /\ tab'[Client].status = 200
      /\ SaveKey(tab'[Client].item.project, UserId) = k
      /\ KvGet(kvProj', k) = tab'[Client].ret

\* C12: the record a successful save returns is the record stored, with
\* the server's updatedAt in place of the client's; a get with the
\* project's id returns that record, and the record stored under the id
\* stays the same until another save for that id.
C12_SaveGetRoundTrip ==
  /\ [](SaveReturnsStored /\ GetReturnsStored)
  /\ [][ChangedOnlyBySave]_vars

\* C12 witness: after two saves a get by id has returned the stored record
\* of the later one, which carries the server's second timestamp.
C12_Witness ==
  /\ Finished(Client, "getRequest")
  /\ tab[Client].status = 200
  /\ tab[Client].ret.updatedAt = ISOString(1)
  /\ tab[Client].ret = KvGet(kvProj, <<PROJECT_PREFIX>> \o tab[Client].item.s)

(*************************** claims: store client *************************)
ClientOps == {"create", "get", "update", "list"}

\* What an operation of the store client returns for "nothing".
Nothing(op) == IF op = "list" THEN Arr({}) ELSE JSNull

\* The call returned nothing and sent no request to the worker.
QuietNothing(op) ==
  /\ tab[Client].ret = Nothing(op)
  /\ ~Includes(tab[Client].io, "workers.exec")

\* C13 as stated: create, get, update and list, called without a session
\* or without a configured worker URL, return null (list: an empty array)
\* and send no request to the worker.
C13_NoSessionNoRequest ==
  \A op \in ClientOps :
    (Finished(Client, op) /\ (tab[Client].user = "none" \/ ~workerUrl)) =>
      QuietNothing(op)

\* C13 amended: get, update and list do so; create does so without a
\* configured worker URL, and without a session when the item's source is
\* not already a hosted URL.
C13_NoSessionNoRequestButCreate ==
  /\ \A op \in {"get", "update", "list"} :
       (Finished(Client, op) /\ (tab[Client].user = "none" \/ ~workerUrl)) =>
         QuietNothing(op)
  /\ (Finished(Client, "create") /\ ~workerUrl) => QuietNothing("create")
  /\ (Finished(Client, "create") /\ tab[Client].user = "none"
        /\ ~isHostedUrl(tab[Client].item.sourceImage)) => QuietNothing("create")

\* C13 witness: list, called without a session while a record is stored
\* and the worker URL is configured, returned an empty array.
C13_Witness ==
  /\ Finished(Client, "list")
  /\ tab[Client].user = "none"
  /\ workerUrl
  /\ kvProj # {}
  /\ QuietNothing("list")

(*************************** claims: uploader *****************************)
Uploading(t) == tab[t].op = "upload"

\* With hosting absent or url empty the upload returns null and has made
\* no backend call.
RejectedAtOnce ==
  (Uploading(Client) /\ tab[Client].pc = "u_ret"
     /\ (~Truthy(tab[Client].up.hosting) \/ ~Truthy(tab[Client].up.url))) =>
    /\ tab[Client].up.ret = JSNull
    /\ tab[Client].up.io = <<>>

\* The call has returned null.
ReturnedNull(r) == r.pc = "u_ret" /\ r.up.ret = JSNull

\* Every step of an upload either goes on to the next step, or ends the
\* call with null; the last step may also end it with the hosted URL of
\* the file it wrote.
StepGoesOnOrNull ==
  LET r == tab[Client]
      q == tab'[Client]
  IN /\ (Uploading(Client) /\ r.pc = "u_resolve") => (q.pc = "u_mkdir" \/ ReturnedNull(q))
     /\ (Uploading(Client) /\ r.pc = "u_mkdir") => (q.pc = "u_write" \/ ReturnedNull(q))
     /\ (Uploading(Client) /\ r.pc = "u_write") =>
          \/ ReturnedNull(q)
          \/ /\ q.pc = "u_ret"
             /\ q.up.ret = HostedAsset(getHostedUrl(r.up.hosting, r.up.path).s)
             /\ [path |-> r.up.path, content |-> r.up.content] \in files'

\* C14: uploadImageToHosting returns null at once, with no fetch, directory
\* create or write, when hosting is absent or url is empty, and the failure
\* of any later step (fetch, re-encode, directory create, write, URL build)
\* ends the call with null: it never throws.
C14_UploadNeverThrows ==
  /\ []RejectedAtOnce
  /\ [][StepGoesOnOrNull]_vars

\* C14 witness: an upload ended with null after its write to the file
\* system had been attempted.
C14_Witness ==
  /\ Uploading(Client)
  /\ ReturnedNull(tab[Client])
  /\ Includes(tab[Client].up.io, "fs.write")

(*************************** claims: hosting failures *********************)
\* The call of tab t has returned null.
HostingNull(r) == r.pc = "h_ret" /\ r.config = JSNull

\* A call begun without a session returns null at once, with no backend
\* call.
NoSessionNull(t) ==
  (tab[t].pc = "idle" /\ tab'[t].pc # "idle" /\ ~signedIn) =>
    (HostingNull(tab'[t]) /\ tab'[t].io = <<>>)

\* Each await of getOrCreateHostingConfig either hands on to the next step
\* of the function or ends the call; a step of the creation branch, and the
\* first lookup, that does not hand on ends the call with null, and the
\* last one hands back the configuration it has stored.
HostingStepGoesOnOrNull(t) ==
  LET r == tab[t]
      q == tab'[t]
  IN /\ r.pc = "h_kvGet" => (q.pc \in {"h_hostingGet", "h_mkdirNew"} \/ HostingNull(q))
     /\ r.pc = "h_hostingGet" => q.pc \in {"h_mkdirOld", "h_mkdirNew"}
     /\ r.pc = "h_mkdirOld" => q.pc \in {"h_hostingUpdate", "h_mkdirNew"}
     /\ r.pc = "h_hostingUpdate" =>
          (q.pc = "h_mkdirNew" \/ (q.pc = "h_ret" /\ q.config = r.existing))
     /\ r.pc = "h_mkdirNew" => (q.pc = "h_hostingCreate" \/ HostingNull(q))
     /\ r.pc = "h_hostingCreate" => (q.pc = "h_kvSet" \/ HostingNull(q))
     /\ r.pc = "h_kvSet" =>
          \/ HostingNull(q)
          \/ /\ q.pc = "h_ret"
             /\ q.config = HostingConfig(r.subdomain)
             /\ kvConfig' = q.config

\* C15: getOrCreateHostingConfig never throws: without a session it returns
\* null with no key-value, file-system or hosting call, and a failing call
\* while it creates a namespace makes it return null.
C15_HostingNeverThrows ==
  [][\A t \in Tabs : tab'[t].pc # tab[t].pc => (NoSessionNull(t) /\ HostingStepGoesOnOrNull(t))]_vars

\* C15 witness: a call returned null after its kv.set failed, the namespace
\* having been created.
C15_Witness ==
  \E t \in Tabs :
    /\ tab[t].op = "hosting"
    /\ HostingNull(tab[t])
    /\ tab[t].created = 1
    /\ Includes(tab[t].io, "kv.set")

(*************************** claims: storage paths ************************)
Labels == {"source", "rendered"}

\* The files of project id that were uploaded under the label.
FilesOf(id, label) ==
  {f \in files :
     /\ Len(f.path) >= 5
     /\ SubSeq(f.path, 1, 5) = <<"roomify-hosting", "/projects/", id, "/", label>>}

\* C16 as stated: the path is determined by project id and label alone, so
\* at most one file per (project id, label) exists.
C16_OneFilePerLabel ==
  \A id \in ProjectIds, label \in Labels : Cardinality(FilesOf(id, label)) <= 1

\* C16 amended: the path is roomify-hosting/projects/{id}/{label}.{ext}
\* with ext png or jpg taken from the image's type (a rendered image is
\* always png); at most one file exists per path, and an upload that
\* returned a URL has left its own content at its path.
C16_OneFilePerLabelAndType ==
  /\ \A f \in files :
       \E id \in ProjectIds, label \in Labels, ext \in {"png", "jpg"} :
         /\ f.path = <<"roomify-hosting", "/projects/", id, "/", label, ".", ext>>
         /\ label = "rendered" => ext = "png"
  /\ \A f, g \in files : f.path = g.path => f = g
  /\ (Uploading(Client) /\ tab[Client].pc = "u_ret"
        /\ Includes(tab[Client].up.io, "fs.write") /\ Truthy(tab[Client].up.ret)) =>
       [path |-> tab[Client].up.path, content |-> tab[Client].up.content] \in files

\* C16 witness: an upload has written source.png for a project that
\* already had source.jpg.
C16_Witness ==
  /\ Uploading(Client) /\ tab[Client].pc = "u_ret" /\ Truthy(tab[Client].up.ret)
  /\ tab[Client].up.path = <<"roomify-hosting", "/projects/", "p1", "/", "source", ".", "png">>
  /\ \E f \in files :
       f.path = <<"roomify-hosting", "/projects/", "p1", "/", "source", ".", "jpg">>

(*************************** claims: createProject order ******************)
HostingPcs ==
  {"h_kvGet", "h_hostingGet", "h_mkdirOld", "h_hostingUpdate", "h_mkdirNew",
   "h_hostingCreate", "h_kvSet", "h_ret"}
UploadPcs == {"u_resolve", "u_mkdir", "u_write", "u_ret"}

\* Position of a settled call in the log of createProject; 0 when absent.
At(r, call) == IndexOf(r.io, call)

\* C17: within one createProject call the hosting configuration is resolved
\* before any upload starts, every upload has completed before the save
\* request is sent, and the request is sent only if the source upload
\* yielded a hosted URL or the source was already hosted.
C17_CreateSequential ==
  LET r == tab[Client]
      sent == At(r, "workers.exec")
  IN r.op = "create" =>
       /\ r.pc \in HostingPcs =>
            /\ At(r, "getOrCreateHostingConfig") = 0
            /\ At(r, "upload.source") = 0 /\ At(r, "upload.rendered") = 0
            /\ sent = 0 /\ ~Includes(r.io, "fetch") /\ ~Includes(r.io, "fs.write")
       /\ (r.pc \in UploadPcs \/ At(r, "upload.source") > 0 \/ At(r, "upload.rendered") > 0) =>
            At(r, "getOrCreateHostingConfig") = 1
       /\ r.pc \in UploadPcs => sent = 0
       /\ sent > 0 =>
            /\ sent = Len(r.io)
            /\ r.pc \in {"c_exec", "ret"}
            /\ At(r, "getOrCreateHostingConfig") = 1
            /\ \A i \in 1..Len(r.io) : IsSettled(r.io[i])
            /\ (Truthy(r.item.id) /\ Truthy(r.item.sourceImage)) =>
                 At(r, "upload.source") = 2
            /\ (Truthy(r.item.id) /\ Truthy(r.item.renderedImage)) =>
                 At(r, "upload.rendered") = sent - 1
            /\ At(r, "upload.source") <= At(r, "upload.rendered")
                 \/ At(r, "upload.rendered") = 0
            /\ \/ Truthy(r.hostedSource) /\ r.payload.sourceImage = Str(r.hostedSource.url)
               \/ isHostedUrl(r.item.sourceImage) /\ r.payload.sourceImage = r.item.sourceImage

\* C17 witness: the save request was sent after the hosting configuration
\* and both uploads had settled, the source having been hosted by its upload.
C17_Witness ==
  /\ tab[Client].op = "create"
  /\ tab[Client].io = <<"getOrCreateHostingConfig", "upload.source", "upload.rendered", "workers.exec">>
  /\ Truthy(tab[Client].hostedSource)
  /\ ~isHostedUrl(tab[Client].item.sourceImage)

(*************************** claims: visualizer generation ****************)
\* The timer of call k fires in this step.
TimerFires(k) == viz.calls[k].timer = "armed" /\ viz'.calls[k].timer = "fired"

\* C18: the 90-second timer of a generation fires only while generate3DView
\* has not resolved, and its firing moves the view from generating-3d to
\* error-3d: isGenerating3D false, error3D the timed-out message.
C18_TimeoutOnlyWhileGenerating ==
  [][\A k \in Calls :
       TimerFires(k) =>
         /\ viz.calls[k].pc = "generate"
         /\ View(viz) = "generating-3d"
         /\ View(viz') = "error-3d"
         /\ ~viz'.isGenerating3D
         /\ viz'.error3D = TimedOutMessage]_vars

\* What a discarded call must leave alone: the displayed 3D image, the error,
\* the generating flag, the hosted image3d file and the stored record.
Kept(v) == <<v.image3D, v.error3D, v.isGenerating3D, v.hosted, v.stored>>

\* C19: once the timer of a generation has fired while generate3DView was
\* unresolved, no later step of that call changes the displayed 3D image,
\* the error, the generating flag, the hosted file or the stored record.
C19_LateCompletionDiscarded ==
  [][\A k \in Calls :
       (viz.calls[k].firedAt = "generate" /\ viz'.calls[k] # viz.calls[k]) =>
         Kept(viz') = Kept(viz)]_vars

\* The generate3DView calls that have not settled.
Unresolved(v) == {k \in Calls : v.calls[k].pc = "generate"}

\* C20: at most one generate3DView call started by the Visualizer is
\* unresolved at any time.
C20_OneUnresolvedCall == Cardinality(Unresolved(viz)) <= 1

(*************************** claims: automatic generation *****************)
\* The calls started by the auto-generate effect, and by Regenerate.
StartedBy(v, by) == {k \in Calls : v.calls[k].by = by}

\* C21: as long as the user has not triggered Regenerate, the auto-generate
\* effect has called generate3DView at most once.
C21_AutoGenerateOnce ==
  StartedBy(viz, "regenerate") = {} => Cardinality(StartedBy(viz, "effect")) <= 1

\* The auto-generate effect starts call k in this step.
AutoStarts(k) == viz.calls[k].pc = "idle" /\ viz'.calls[k].by = "effect"

\* C22: the auto-generate effect starts a generation only when a project
\* with a source image is loaded, loading has finished, no 3D image is held,
\* the record has no stored 3D reference, and no generation is in progress.
C22_AutoGenerateOnlyWhenIdle ==
  [][\A k \in Calls :
       AutoStarts(k) =>
         /\ viz.project # JSNull
         /\ ~viz.isLoading
         /\ viz.image3D = JSNull
         /\ ~HasStored3D(viz)
         /\ ~viz.isGenerating3D
         /\ Unresolved(viz) = {}]_vars

(*************************** claims: regenerate and errors ****************)
\* C23: from a Regenerate until its generate3DView call settles the
\* Visualizer holds no 3D image.
C23_NoImageWhileRegenerating ==
  \A k \in Calls :
    (viz.calls[k].by = "regenerate" /\ viz.calls[k].pc = "generate") =>
      viz.image3D = JSNull

\* C24: in the error-3d state, where a failed or timed-out generation leaves
\* the Visualizer, the Regenerate action is available to the user.
C24_ErrorStateOffersRetry ==
  (View(viz) = "error-3d" /\ viz.error3D # SavedFailedMessage) =>
    RegenerateAvailable(viz)

(*************************** claims: view controls ************************)
\* The step is a gesture on the view controls.
Gesture == pane'.moves # pane.moves

Pane2D(p) == <<p.zoom2D, p.pan2D>>
Pane3D(p) == <<p.zoom3D, p.pan3D>>
AllReset(p) == Pane2D(p) = <<ZoomOne, Origin>> /\ Pane3D(p) = <<ZoomOne, Origin>>

\* A gesture that keeps the view mode changes the zoom and pan of at most
\* one pane.
Independent ==
  (Gesture /\ pane'.viewMode = pane.viewMode) =>
    (Pane2D(pane') = Pane2D(pane) \/ Pane3D(pane') = Pane3D(pane))

\* Switching to the single view resets zoom and pan of both panes.
ToggleResets ==
  (pane.viewMode = "split" /\ pane'.viewMode = "single") => AllReset(pane')

\* Regenerate is clicked, and the image of a Regenerate arrives.
RegenerateClicked ==
  \E k \in Calls : viz.calls[k].pc = "idle" /\ viz'.calls[k].by = "regenerate"
RegenerateResolves ==
  \E k \in Calls :
    /\ viz.calls[k].by = "regenerate"
    /\ viz.calls[k].pc = "generate"
    /\ viz'.calls[k].pc = "hosting"

\* C25 as stated: pan and zoom are independent per pane, and both panes are
\* reset to zoom 1 and pan (0,0) on Regenerate and on switching to single.
C25_IndependentBothReset ==
  [][/\ Independent
     /\ ToggleResets
     /\ RegenerateResolves => AllReset(pane')]_vars

\* C25: pan and zoom are independent per pane; switching to the single view
\* resets both panes; a Regenerate resets the 3D pane only, when its image
\* arrives, and leaves the 2D pane as it is; the click itself resets nothing.
C25_IndependentReset3D ==
  [][/\ Independent
     /\ ToggleResets
     /\ RegenerateClicked => pane' = pane
     /\ RegenerateResolves =>
          /\ Pane3D(pane') = <<ZoomOne, Origin>>
          /\ Pane2D(pane') = Pane2D(pane)]_vars

\* C25 witness: the image of a Regenerate has arrived with no gesture made:
\* the 3D pane is reset, the 2D pane still zoomed and dragged.
C25_Witness ==
  /\ \E k \in Calls :
       viz.calls[k].by = "regenerate" /\ viz.calls[k].pc \in {"hosting", "upload", "update"}
  /\ pane.moves = 0
  /\ Pane2D(pane) = <<ZoomMax, Off>>
  /\ Pane3D(pane) = <<ZoomOne, Origin>>

\* C30: the zoom of each pane stays within 0.5 and 3.0 and the comparison
\* slider within 0 and 100.
C30_ZoomAndSliderInRange ==
  /\ pane.zoom2D \in ZoomMin..ZoomMax
  /\ pane.zoom3D \in ZoomMin..ZoomMax
  /\ pane.comparisonSlider \in SliderMin..SliderMax

\* C30 witness: after gestures the 2D pane is at the upper limit and the 3D
\* pane at the lower one.
C30_Witness ==
  /\ pane.moves = MaxMoves
  /\ pane.viewMode = "split"
  /\ pane.zoom2D = ZoomMax
  /\ pane.zoom3D = ZoomMin

\* The comparison slider dragged beyond the right edge of its container.
C30_SliderWitness ==
  pane.moves > 0 /\ pane.comparisonSlider = SliderMax

(*************************** claims: loading ******************************)
\* A load has run and none is in flight.
LoadsFinished ==
  /\ \E n \in Loads : viz.loads[n].pc = "done"
  /\ \A n \in Loads : viz.loads[n].pc # "getProject"

\* C27: loading always ends, and once the project load has finished
\* isLoading is false and either a project is set with no error, or an error
\* is set and the 'Project Not Found' screen is shown.
C27_LoadEndsReadyOrError ==
  /\ [](LoadsFinished =>
          /\ ~viz.isLoading
          /\ \/ viz.project # JSNull /\ viz.error = JSNull /\ Screen(viz) = "ready"
             \/ viz.error # JSNull /\ Screen(viz) = "Project Not Found")
  /\ <>[](LoadsFinished /\ ~viz.isLoading)

\* C27 witness: a load that found the project and a later load that found
\* nothing have both finished: the error is set and its screen shown.
C27_Witness ==
  /\ LoadsFinished
  /\ viz.loads[2].pc = "done"
  /\ viz.project # JSNull
  /\ viz.error # JSNull
  /\ Screen(viz) = "Project Not Found"

(*************************** claims: generation errors ********************)
\* The messages of the errors fetchAsDataUrl and extractBase64FromDataUrl
\* throw before any model is tried.
HelperMessages ==
  {<<"Failed to fetch">>, <<"Failed to fetch image: ", "404", " ", "Not Found">>,
   <<"FileReader failed to read blob">>, <<"Invalid data URL format">>}

OnCompleteCalled(f) == home'.called[f] # home.called[f]

\* Every invocation of onComplete is the first one for its file, made by the
\* redirect timeout of that file with the progress at 100.
OnCompleteOnceAfterDelay ==
  \A f \in UploadFiles :
    OnCompleteCalled(f) =>
      /\ home.called[f] = 0 /\ home'.called[f] = 1
      /\ home.pc = "timeout" /\ home.file = f
      /\ home.progress = ProgressFull

\* No step taken while signed out begins the processing of a file.
SignedOutProcessesNothing ==
  ~signedIn => /\ home'.accepted = home.accepted
               /\ (home.pc = "idle" => home'.pc = "idle")

\* C28 as stated: for each file the Upload component accepts while signed
\* in, onComplete is called exactly once, only after the progress has reached
\* 100 and the redirect delay has elapsed; signed out, no file is processed
\* and onComplete is not called.
C28_OnCompleteExactlyOnce ==
  /\ [][OnCompleteOnceAfterDelay /\ SignedOutProcessesNothing]_vars
  /\ \A f \in UploadFiles : (home.accepted >= f) ~> (home.called[f] = 1)

\* C28 amended: onComplete is called at most once per accepted file, only by
\* the redirect timeout with the progress at 100; it is called exactly once
\* for a file whose read succeeded and never for one whose read failed;
\* signed out, no file is processed.
C28_OnCompleteOnceIfRead ==
  /\ [][OnCompleteOnceAfterDelay /\ SignedOutProcessesNothing]_vars
  /\ \A f \in UploadFiles :
       /\ (home.file = f /\ home.pc = "interval") ~> (home.called[f] = 1)
       /\ [](f \in home.readFailed => home.called[f] = 0)

\* C28 witness: onComplete has been called for an accepted file, and another
\* file was offered while signed out.
C28_Witness ==
  /\ home.called[1] = 1
  /\ home.offered > home.accepted

\* C29: handleUploadComplete navigates only in a call whose createProject
\* returned a record, after its loadProjects; a call whose createProject
\* returned null returns false in that step, leaves the project list and the
\* route alone, and does nothing afterwards.
C29_NavigateOnlyAfterSaved ==
  [][/\ home'.navigated # home.navigated =>
         \E f \in UploadFiles :
           /\ home'.navigated = Append(home.navigated, f)
           /\ home.huc[f].pc = "loadProjects"
           /\ home.huc[f].saved
     /\ \A f \in UploadFiles :
          /\ (home.huc[f].pc = "createProject" /\ home'.huc[f].pc # "createProject"
                 /\ ~home'.huc[f].saved) =>
               /\ home'.huc[f].ret = "false"
               /\ home'.projets = home.projets
               /\ home'.navigated = home.navigated
          /\ home.huc[f].ret = "false" => home'.huc[f] = home.huc[f]]_vars

\* C29 witness: one call has returned false and a later one has navigated.
C29_Witness ==
  /\ home.huc[1].ret = "false"
  /\ home.navigated = <<2>>

====
